---- MODULE Spec2Model ----
(***************************************************************************)
(* A model of the quiz application: the quiz-taking component              *)
(* (QuizTaking.tsx), the generation attempt of the quiz generator          *)
(* (QuizGenerator.tsx: generateQuiz, generateVoiceQuiz,                    *)
(* generateVoiceQuizFrom), the handling of one response, the extraction of *)
(* the question array from the response text, and the voice conversation   *)
(* (startListening, the recognition callbacks, processVoiceResponse).      *)
(*                                                                         *)
(* The browser runs one callback at a time, and React re-renders between   *)
(* two discrete events, so every handler is one atomic action that reads   *)
(* the state of the latest render.  A timer callback keeps the values its  *)
(* closure captured when the timer was set.                                *)
(***************************************************************************)
EXTENDS Integers, Sequences, FiniteSets, TLC

VARIABLES
  \* ---- QuizTaking.tsx
  questions,             \* props.questions: sequence of Question records
  currentQuestionIndex,  \* 0-based, as in the code
  userAnswers,           \* sequence of UserAnswer records
  selectedOption,        \* 0..3 or NoOption
  showAnswer,
  credits,
  isQuizComplete,
  usedHints,             \* set of question indexes
  advanceTimers,         \* pending auto-advance timers, oldest first: the
                         \* isLastQuestion value each closure captured, and
                         \* whether its component instance is still there
  \* ---- extraction of the question array (generateQuiz, generateVoiceQuizFrom)
  generatedText,         \* the response text, a sequence of characters
  jsonMatch,             \* what generatedText.match(...) returned
  \* ---- Index (part_001)
  appState,              \* "generator" or "taking"
  quizQuestions,         \* the questions handed to onQuizGenerated
  \* ---- QuizGenerator.tsx: inputs
  apiKey,                \* GEMINI_API_KEY is configured
  inputType,             \* "file", "web" or "voice"
  selectedFile,          \* NoFile or a file
  webLink,               \* a sequence of characters
  isVoiceInputComplete,
  voiceResponses,        \* [topic, questionCount, difficulty]
  showVoiceModal,
  \* ---- QuizGenerator.tsx: the generation attempt
  isGenerating,          \* the React state
  isGeneratingQuizRef,
  lastQuizGenerationRef, \* ms
  now,                   \* Date.now(), ms
  attempt,               \* the running generateQuiz / generateVoiceQuiz call:
                         \* where it awaits and what its closure captured
  request,               \* the generation request in flight
  \* ---- what the attempts did (history)
  toasts,                \* the notifications of the last attempt, or of
                         \* the last step of the voice conversation
  outcome,               \* "none", "running", "delivered" or "failed"
  inFlight,              \* fetch calls that have not settled yet
  attemptRequests,       \* fetch calls since the last click that started
                         \* an attempt
  lastClick,             \* what the last Generate click did
  \* ---- QuizGenerator.tsx: one response, from the fetch to the delivery
  fetchedPath,           \* "doc" (generateQuiz) or "voice"
  fetched,               \* the response the fetch resolved with
  handled,               \* the code after the fetch has run
  result,                \* what it ended with
  \* ---- QuizGenerator.tsx: the voice conversation
  conversationStepRef,   \* "topic", "questions" or "difficulty"
  isListening,
  isProcessingRef,
  currentTranscriptRef,
  recognitionRef,        \* the session recognitionRef.current is, 0 for null
  sessions,              \* the SpeechRecognition objects created so far
  silenceTimer,          \* 0, or the session whose result set the pending
                         \* silence timer
  pending,               \* the timers set, with the prompts before them
  history                \* per session: calls of processVoiceResponse that
                         \* passed its guard

quizVars == <<questions, currentQuestionIndex, userAnswers, selectedOption,
              showAnswer, credits, isQuizComplete, usedHints, advanceTimers>>

matchVars == <<generatedText, jsonMatch>>

(* Index (the page) and QuizGenerator: the inputs and the generation attempt *)
genVars == <<appState, quizQuestions, apiKey, inputType, selectedFile, webLink,
             isVoiceInputComplete, voiceResponses, showVoiceModal, isGenerating,
             isGeneratingQuizRef, lastQuizGenerationRef, now, attempt,
             request, toasts, outcome, attemptRequests, inFlight,
             lastClick>>

respVars == <<fetchedPath, fetched, handled, result>>

voiceVars == <<conversationStepRef, isListening, isProcessingRef,
               currentTranscriptRef, recognitionRef, sessions, silenceTimer,
               pending, history>>

vars == <<quizVars, matchVars, genVars, respVars, voiceVars>>

(* What an action of one component leaves alone *)
OnlyQuiz == UNCHANGED <<matchVars, genVars, respVars, voiceVars>>

OnlyMatch == UNCHANGED <<quizVars, genVars, respVars, voiceVars>>

OnlyGen == UNCHANGED <<quizVars, matchVars, respVars, voiceVars>>

OnlyResp == UNCHANGED <<quizVars, matchVars, genVars, voiceVars>>

----------------------------------------------------------------------------
(* Bounds of the model *)

MaxQuestions == 3

MaxTextLen == 4

MaxParsedLen == 2

MaxTicks == 1

MaxTimers == 3

MaxFetchedLen == 1

MaxPending == 2

MaxProcessed == 2

MaxWords == 2

(* Program constants *)

NoOption == -1
NumOptions == 4
InitialCredits == 10
HintCost == 2

(* The options the user clicks: with the quizzes of QuizQuestionLists, a     *)
(* right and a wrong option for every question                               *)
OptionClicks == {0, 2}

----------------------------------------------------------------------------
(* QuizTaking *)

Question(cai) == [correctAnswerIndex |-> cai]

(* The quizzes taken: one of every length, the correct option being the      *)
(* first one for the odd questions and the third one for the even ones       *)
QuizQuestionLists ==
  {[k \in 1..n |-> Question(IF k % 2 = 1 THEN 0 ELSE 2)] : n \in 1..MaxQuestions}

InRange == currentQuestionIndex \in 0..(Len(questions) - 1)

(* questions[currentQuestionIndex]; read only when the index is in range *)
currentQuestion == questions[currentQuestionIndex + 1]

isLastQuestion == currentQuestionIndex = Len(questions) - 1

(* A lookup that finds only the answer recorded last *)
hasAnsweredLast ==
  /\ userAnswers # <<>>
  /\ userAnswers[Len(userAnswers)].questionIndex = currentQuestionIndex

hasAnswered ==
  \E i \in 1..Len(userAnswers) : userAnswers[i].questionIndex = currentQuestionIndex

(* A hint that is offered whatever the credits are *)
canUseHintWithoutCredits == currentQuestionIndex \notin usedHints

canUseHint == credits >= HintCost /\ currentQuestionIndex \notin usedHints

(* The question card is on screen: the quiz is not complete and the render   *)
(* found a current question.  With the index out of range the render throws  *)
(* on currentQuestion.question and React unmounts the component.             *)
QuestionShown == appState = "taking" /\ ~isQuizComplete /\ InRange

(* The component is mounted: Index renders QuizTaking, and the results       *)
(* screen or the question card renders                                       *)
Mounted == appState = "taking" /\ (isQuizComplete \/ InRange)

(* No quiz is being taken: the state of the variables outside QuizTaking *)
QuizIdle ==
  /\ questions = <<>>
  /\ currentQuestionIndex = 0
  /\ userAnswers = <<>>
  /\ selectedOption = NoOption
  /\ showAnswer = FALSE
  /\ credits = InitialCredits
  /\ isQuizComplete = FALSE
  /\ usedHints = {}
  /\ advanceTimers = <<>>

QuizInit ==
  /\ questions \in QuizQuestionLists
  /\ currentQuestionIndex = 0
  /\ userAnswers = <<>>
  /\ selectedOption = NoOption
  /\ showAnswer = FALSE
  /\ credits = InitialCredits
  /\ isQuizComplete = FALSE
  /\ usedHints = {}
  /\ advanceTimers = <<>>

(* The shortest quiz on which the credits run out before the questions do:   *)
(* one question more than the hints that InitialCredits pay for              *)
HintQuizLen == InitialCredits \div HintCost + 1

HintQuiz == [k \in 1..HintQuizLen |-> Question(IF k % 2 = 1 THEN 0 ELSE 2)]

(* QuizTaking mounted with the quiz of HintQuizLen questions *)
HintsInit ==
  /\ questions = HintQuiz
  /\ currentQuestionIndex = 0
  /\ userAnswers = <<>>
  /\ selectedOption = NoOption
  /\ showAnswer = FALSE
  /\ credits = InitialCredits
  /\ isQuizComplete = FALSE
  /\ usedHints = {}
  /\ advanceTimers = <<>>

(* A pending timer of handleNextQuestion.  live: the QuizTaking instance     *)
(* whose state setters the callback holds has not been unmounted by Index.   *)
Timer(isLast, live) == [isLast |-> isLast, live |-> live]

(* Timers that still reach the next quiz *)
OrphanedStillLive(timers) == timers

(* The timers of an instance that Index unmounts: they stay pending, and     *)
(* nothing their callbacks do has an effect any more                         *)
Orphaned(timers) == [k \in 1..Len(timers) |-> Timer(FALSE, FALSE)]

(* The body of the auto-advance, shared by the timer and by Next on an       *)
(* answered question; isLast is the value the caller's render computed.      *)
Advance(isLast) ==
  IF isLast
  THEN /\ isQuizComplete' = TRUE
       /\ UNCHANGED <<currentQuestionIndex, selectedOption, showAnswer>>
  ELSE /\ currentQuestionIndex' = currentQuestionIndex + 1
       /\ selectedOption' = NoOption
       /\ showAnswer' = FALSE
       /\ UNCHANGED isQuizComplete

handleOptionSelect(optionIndex) ==
  /\ OnlyQuiz
  /\ QuestionShown
  /\ ~(showAnswer \/ hasAnswered)          \* the option button is not disabled
  /\ ~showAnswer
  /\ selectedOption' = optionIndex
  /\ UNCHANGED <<questions, currentQuestionIndex, userAnswers, showAnswer,
                 credits, isQuizComplete, usedHints, advanceTimers>>

(* An answer that is judged by the first question of the quiz *)
NewAnswerJudgedByFirst ==
  [questionIndex  |-> currentQuestionIndex,
   selectedAnswer |-> selectedOption,
   isCorrect      |-> (selectedOption = questions[1].correctAnswerIndex),
   usedHint       |-> (currentQuestionIndex \in usedHints)]

NewAnswer ==
  [questionIndex  |-> currentQuestionIndex,
   selectedAnswer |-> selectedOption,
   isCorrect      |-> (selectedOption = currentQuestion.correctAnswerIndex),
   usedHint       |-> (currentQuestionIndex \in usedHints)]

(* A list that takes the new answer in front *)
RecordedFirst(prev, newAnswer) == <<newAnswer>> \o prev

(* [...prev, newAnswer] *)
Recorded(prev, newAnswer) == Append(prev, newAnswer)

handleNextQuestion ==
  /\ OnlyQuiz
  /\ QuestionShown
  /\ ~(selectedOption = NoOption /\ ~hasAnswered)   \* the Next button is not disabled
  /\ (~hasAnswered /\ selectedOption # NoOption) => Len(advanceTimers) < MaxTimers
  /\ IF ~hasAnswered /\ selectedOption # NoOption
     THEN /\ userAnswers' = Recorded(userAnswers, NewAnswer)
          /\ showAnswer' = TRUE
          /\ advanceTimers' = Append(advanceTimers, Timer(isLastQuestion, TRUE))
          /\ UNCHANGED <<currentQuestionIndex, selectedOption, isQuizComplete>>
     ELSE /\ Advance(isLastQuestion)
          /\ UNCHANGED <<userAnswers, advanceTimers>>
  /\ UNCHANGED <<questions, credits, usedHints>>

handlePreviousQuestion ==
  /\ OnlyQuiz
  /\ QuestionShown
  /\ currentQuestionIndex > 0
  /\ currentQuestionIndex' = currentQuestionIndex - 1
  /\ selectedOption' = NoOption
  /\ showAnswer' = FALSE
  /\ UNCHANGED <<questions, userAnswers, credits, isQuizComplete, usedHints,
                 advanceTimers>>

handleUseHint ==
  /\ OnlyQuiz
  /\ QuestionShown
  /\ canUseHint
  /\ credits' = credits - HintCost
  /\ usedHints' = usedHints \cup {currentQuestionIndex}
  /\ UNCHANGED <<questions, currentQuestionIndex, userAnswers, selectedOption,
                 showAnswer, isQuizComplete, advanceTimers>>

(* The oldest pending auto-advance timer fires (all timers wait 2000 ms) *)
AutoAdvance ==
  /\ OnlyQuiz
  /\ Mounted
  /\ advanceTimers # <<>>
  /\ Head(advanceTimers).live
  /\ Advance(Head(advanceTimers).isLast)
  /\ advanceTimers' = Tail(advanceTimers)
  /\ UNCHANGED <<questions, userAnswers, credits, usedHints>>

(* A pending auto-advance timer fires after the component was unmounted: the *)
(* timer is never cleared, and React drops the state updates of its callback *)
StaleAdvance ==
  /\ OnlyQuiz
  /\ advanceTimers # <<>>
  /\ ~Mounted \/ ~Head(advanceTimers).live
  /\ advanceTimers' = Tail(advanceTimers)
  /\ UNCHANGED <<questions, currentQuestionIndex, userAnswers, selectedOption,
                 showAnswer, credits, isQuizComplete, usedHints>>

----------------------------------------------------------------------------
(* calculateScore and the results screen *)

correctAnswers == Cardinality({i \in 1..Len(userAnswers) : userAnswers[i].isCorrect})

totalQuestions == Len(questions)

(* Math.round of a non-negative quotient n/d: floor(n/d + 1/2) *)
Round(n, d) == (2 * n + d) \div (2 * d)

percentage == Round(100 * correctAnswers, totalQuestions)

incorrectShown == totalQuestions - correctAnswers

AnsweredQuestions == {userAnswers[i].questionIndex : i \in 1..Len(userAnswers)}

----------------------------------------------------------------------------
(* Claims about QuizTaking, checked under SpecQuiz *)

(* C1: while the quiz is not complete, the current question index stays in  *)
(* 0..questions.length-1, whatever the interleaving of clicks and            *)
(* auto-advance timers: a current question always exists.                    *)
C1_IndexInRange == ~isQuizComplete => InRange

(* C2: the quiz is complete only after an answer was recorded for every     *)
(* question: isQuizComplete implies an entry of userAnswers for each index   *)
(* 0..questions.length-1.                                                    *)
C2_CompleteOnlyWhenAllAnswered ==
  isQuizComplete => \A q \in 0..(Len(questions) - 1) : q \in AnsweredQuestions

(* C3: on the results screen correctAnswers is the number of questions whose *)
(* recorded option is the question's correctAnswerIndex, totalQuestions is   *)
(* questions.length, the percentage is round(100*correct/total) within       *)
(* 0..100, and the displayed incorrect count is the number of recorded wrong *)
(* answers.                                                                  *)
C3_CorrectCount ==
  correctAnswers =
    Cardinality({q \in 0..(Len(questions) - 1) :
      \E i \in 1..Len(userAnswers) :
        /\ userAnswers[i].questionIndex = q
        /\ userAnswers[i].selectedAnswer = questions[q + 1].correctAnswerIndex})

C3_Percentage ==
  /\ percentage \in 0..100
  /\ 2 * totalQuestions * percentage <= 200 * correctAnswers + totalQuestions
  /\ 200 * correctAnswers + totalQuestions < 2 * totalQuestions * (percentage + 1)

C3_IncorrectCount ==
  incorrectShown = Cardinality({i \in 1..Len(userAnswers) : ~userAnswers[i].isCorrect})

C3_ScoreOnResults ==
  isQuizComplete =>
    /\ C3_CorrectCount
    /\ totalQuestions = Len(questions)
    /\ C3_Percentage
    /\ C3_IncorrectCount

----------------------------------------------------------------------------
(* Claims about QuizTaking and its unmounting, checked under SpecQuiz *)

(* C15: a recorded answer is never changed or removed: every step of a quiz  *)
(* that is being taken leaves userAnswers as it is or appends one answer.    *)
C15_AnswersAppendOnly ==
  [][\/ appState # "taking" \/ appState' # "taking"
     \/ userAnswers' = userAnswers
     \/ /\ Len(userAnswers') = Len(userAnswers) + 1
        /\ SubSeq(userAnswers', 1, Len(userAnswers)) = userAnswers]_vars

C15_Witness ==
  /\ Len(userAnswers) = 2
  /\ currentQuestionIndex = 0
  /\ ~showAnswer
  /\ usedHints = {0}
  /\ advanceTimers = <<>>

(* The displayed Hints Used count *)
hintsUsed == Cardinality(usedHints)

(* C16: at any time a recorded answer has usedHint exactly when a hint has   *)
(* been used on its question, and on the results screen the number of        *)
(* answers with usedHint is the displayed Hints Used count.                  *)
C16_UsedHintMatchesHints ==
  /\ \A i \in 1..Len(userAnswers) :
       userAnswers[i].usedHint <=> userAnswers[i].questionIndex \in usedHints
  /\ isQuizComplete =>
       Cardinality({i \in 1..Len(userAnswers) : userAnswers[i].usedHint}) = hintsUsed

(* C17: every recorded answer belongs to a question of the quiz, holds an    *)
(* option index in 0..3 and has isCorrect exactly when that option is the    *)
(* question's correctAnswerIndex; and the answer a step records is the       *)
(* option selected at that moment, under the index of the question shown.    *)
C17_AnswersConsistent ==
  /\ [](\A i \in 1..Len(userAnswers) :
         /\ userAnswers[i].questionIndex \in 0..(Len(questions) - 1)
         /\ userAnswers[i].selectedAnswer \in 0..(NumOptions - 1)
         /\ userAnswers[i].isCorrect <=>
              userAnswers[i].selectedAnswer =
                questions[userAnswers[i].questionIndex + 1].correctAnswerIndex)
  /\ [][Len(userAnswers') > Len(userAnswers) =>
          /\ QuestionShown
          /\ userAnswers'[Len(userAnswers')].questionIndex = currentQuestionIndex
          /\ userAnswers'[Len(userAnswers')].selectedAnswer = selectedOption]_vars

C17_Witness ==
  /\ isQuizComplete
  /\ Len(questions) = 2
  /\ \E i, j \in 1..Len(userAnswers) :
       /\ userAnswers[i].questionIndex = 0 /\ ~userAnswers[i].isCorrect
       /\ userAnswers[j].questionIndex = 1 /\ userAnswers[j].isCorrect
       /\ userAnswers[j].selectedAnswer = 2

(* C21: a QuizTaking that is mounted starts at the first question with no    *)
(* answers, no option selected, 10 credits, no hints used and not complete;  *)
(* until its first answer is recorded it stays at the first question with no *)
(* answer shown; and a timer of an earlier quiz that fires changes nothing   *)
(* of its state.                                                             *)
C21_QuizStartsFresh ==
  /\ [][appState = "generator" /\ appState' = "taking" =>
          /\ currentQuestionIndex' = 0
          /\ userAnswers' = <<>>
          /\ selectedOption' = NoOption
          /\ ~showAnswer'
          /\ credits' = InitialCredits
          /\ usedHints' = {}
          /\ ~isQuizComplete'
          /\ questions' = quizQuestions']_vars
  /\ [](appState = "taking" /\ userAnswers = <<>> =>
          /\ currentQuestionIndex = 0
          /\ ~showAnswer
          /\ ~isQuizComplete
          /\ credits = InitialCredits - HintCost * Cardinality(usedHints))
  /\ [][/\ appState = "taking"
        /\ advanceTimers # <<>>
        /\ advanceTimers' = Tail(advanceTimers)
        /\ ~Head(advanceTimers).live
        => UNCHANGED <<questions, currentQuestionIndex, userAnswers,
                       selectedOption, showAnswer, credits, isQuizComplete,
                       usedHints>>]_vars

C21_Witness ==
  /\ appState = "taking"
  /\ Len(questions) = 2
  /\ userAnswers = <<>>
  /\ selectedOption # NoOption
  /\ usedHints = {0}
  /\ Len(advanceTimers) = 1
  /\ ~Head(advanceTimers).live

(* C22: with the timers firing, an answer shown on a question that is not    *)
(* the last one is followed by showAnswer false with no option selected, and *)
(* an answer shown on the last question is followed by the quiz complete.    *)
C22_AnswerShownEnds ==
  /\ (QuestionShown /\ showAnswer /\ ~isLastQuestion)
        ~> (~showAnswer /\ selectedOption = NoOption)
  /\ (QuestionShown /\ showAnswer /\ isLastQuestion) ~> isQuizComplete

(* C27: userAnswers never holds two entries with the same questionIndex, and *)
(* an answer is recorded only on a question that had no recorded answer.     *)
C27_AnsweredAtMostOnce ==
  /\ [](\A i, j \in 1..Len(userAnswers) :
          userAnswers[i].questionIndex = userAnswers[j].questionIndex => i = j)
  /\ [][Len(userAnswers') > Len(userAnswers) =>
          /\ ~hasAnswered
          /\ userAnswers'[Len(userAnswers')].questionIndex = currentQuestionIndex]_vars

C27_Witness ==
  /\ QuestionShown
  /\ Len(userAnswers) = 2
  /\ currentQuestionIndex = 0
  /\ hasAnswered
  /\ ~showAnswer
  /\ advanceTimers = <<>>

(* C28: credits = 10 - 2 * (number of questions with a hint used), credits   *)
(* are never negative and at most 5 hints are used; credits and usedHints    *)
(* change only by a hint that is allowed (credits >= 2, not yet used on the  *)
(* current question), which takes 2 credits and adds the current question.   *)
C28_CreditsConserved ==
  /\ [](/\ credits = InitialCredits - HintCost * Cardinality(usedHints)
        /\ credits >= 0
        /\ Cardinality(usedHints) <= InitialCredits \div HintCost)
  /\ [][credits' # credits \/ usedHints' # usedHints =>
          /\ credits >= HintCost
          /\ currentQuestionIndex \notin usedHints
          /\ credits' = credits - HintCost
          /\ usedHints' = usedHints \cup {currentQuestionIndex}]_vars

C28_Witness ==
  /\ QuestionShown
  /\ credits < HintCost
  /\ currentQuestionIndex \notin usedHints
  /\ ~hasAnswered
  /\ selectedOption # NoOption

(* C13: once QuizTaking has been unmounted by Try Another Quiz, none of its  *)
(* auto-advance timers is still pending: teardown clears them.               *)
C13_TeardownClearsTimers == appState = "generator" => advanceTimers = <<>>

----------------------------------------------------------------------------
(* The question array in the response text:                                 *)
(*   const jsonMatch = generatedText.match(/\[[\s\S]*\]/)                   *)
(* A text is a sequence of characters; "x" stands for any character other   *)
(* than a bracket.                                                           *)

TextChars == {"[", "]", "x"}

Texts == UNION {[1..n -> TextChars] : n \in 0..MaxTextLen}

NoMatch == <<"null">>

Unmatched == <<"unset">>

Slice(t, i, j) == [k \in 1..(j - i + 1) |-> t[i + k - 1]]

Opens(t) == {i \in 1..Len(t) : t[i] = "["}

Closes(t) == {j \in 1..Len(t) : t[j] = "]"}

Min(S) == CHOOSE x \in S : \A y \in S : x <= y

Max(S) == CHOOSE x \in S : \A y \in S : x >= y

(* The regular expression: the leftmost "[" that has a "]" after it, then    *)
(* [\s\S]* takes as much as it can, so the match ends at the last "]".       *)
RegexMatch(t) ==
  LET starts == {i \in Opens(t) : \E j \in Closes(t) : j > i}
  IN  IF starts = {} THEN NoMatch
      ELSE LET i == Min(starts)
               j == Max({k \in Closes(t) : k > i})
           IN  Slice(t, i, j)

MatchInit ==
  /\ generatedText \in Texts
  /\ jsonMatch = Unmatched

MatchIdle ==
  /\ generatedText = <<>>
  /\ jsonMatch = Unmatched

(* generatedText.match(...) *)
ExtractArray ==
  /\ OnlyMatch
  /\ jsonMatch = Unmatched
  /\ jsonMatch' = RegexMatch(generatedText)
  /\ UNCHANGED generatedText

----------------------------------------------------------------------------
(* The values JSON.parse can return for the fields of a question, and the   *)
(* validation of the parsed array (generateQuiz and generateVoiceQuizFrom    *)
(* run the same checks).                                                     *)

Undefined == [type |-> "undefined", str |-> "", num |-> 0, whole |-> TRUE]

Str(s) == [type |-> "string", str |-> s, num |-> 0, whole |-> TRUE]

(* The number n, or n + 1/2 when whole is FALSE *)
Num(n, w) == [type |-> "number", str |-> "", num |-> n, whole |-> w]

(* An array of length n *)
Arr(n) == [type |-> "array", str |-> "", num |-> n, whole |-> TRUE]

(* JavaScript truthiness of a value *)
Truthy(v) ==
  CASE v.type = "undefined" -> FALSE
    [] v.type = "string"    -> v.str # ""
    [] v.type = "number"    -> ~(v.num = 0 /\ v.whole)
    [] v.type = "array"     -> TRUE

(* An element of the parsed array: null, or an object with these fields *)
Elem(isNull, q, o, c, h) ==
  [isNull |-> isNull, question |-> q, options |-> o, correctAnswerIndex |-> c,
   hint |-> h]

NullElem == Elem(TRUE, Undefined, Undefined, Undefined, Undefined)

(* The elements of a response array: null, the elements the prompt asks for  *)
(* (with an index inside or outside the options), and the elements that      *)
(* differ from these in one field.                                           *)
GoodIndexes == {Num(2, TRUE), Num(7, TRUE)}

BadQuestions == {Str("")}

BadOptions == {Arr(NumOptions - 1)}

BadIndexes == {Str("2")}

BadHints == {Undefined}

Elems ==
  {NullElem}
  \cup {Elem(FALSE, Str("Q"), Arr(NumOptions), c, Str("h")) : c \in GoodIndexes}
  \cup {Elem(FALSE, q, Arr(NumOptions), Num(2, TRUE), Str("h")) : q \in BadQuestions}
  \cup {Elem(FALSE, Str("Q"), o, Num(2, TRUE), Str("h")) : o \in BadOptions}
  \cup {Elem(FALSE, Str("Q"), Arr(NumOptions), c, Str("h")) : c \in BadIndexes}
  \cup {Elem(FALSE, Str("Q"), Arr(NumOptions), Num(2, TRUE), h) : h \in BadHints}

ParsedArrays == UNION {[1..n -> Elems] : n \in 0..MaxParsedLen}

(* A callback that does not look at the hint *)
ValidQuestionWithoutHint(q) ==
  IF q.isNull THEN "throws"
  ELSE IF /\ Truthy(q.question)
          /\ q.options.type = "array"
          /\ q.options.num = NumOptions
          /\ q.correctAnswerIndex.type = "number"
       THEN "true" ELSE "false"

(* The callback of questions.every: "throws" on a null element *)
ValidQuestion(q) ==
  IF q.isNull THEN "throws"
  ELSE IF /\ Truthy(q.question)
          /\ q.options.type = "array"
          /\ q.options.num = NumOptions
          /\ q.correctAnswerIndex.type = "number"
          /\ Truthy(q.hint)
       THEN "true" ELSE "false"

(* questions.every(...) over the elements from k on: stops at the first      *)
(* element that is not valid                                                 *)
RECURSIVE EveryFrom(_, _)
EveryFrom(arr, k) ==
  IF k > Len(arr) THEN "true"
  ELSE IF ValidQuestion(arr[k]) = "true" THEN EveryFrom(arr, k + 1)
       ELSE ValidQuestion(arr[k])

isValidFormat(arr) == EveryFrom(arr, 1)

----------------------------------------------------------------------------
(* Character sequences *)

RECURSIVE TrimLeft(_)
TrimLeft(t) == IF t # <<>> /\ Head(t) = " " THEN TrimLeft(Tail(t)) ELSE t

RECURSIVE TrimRight(_)
TrimRight(t) ==
  IF t # <<>> /\ t[Len(t)] = " " THEN TrimRight(SubSeq(t, 1, Len(t) - 1)) ELSE t

(* String.prototype.trim *)
Trim(t) == TrimRight(TrimLeft(t))

DigitChars == <<"0", "1", "2", "3", "4", "5", "6", "7", "8", "9">>

IsDigit(c) == \E d \in 1..Len(DigitChars) : DigitChars[d] = c

DigitValue(c) == (CHOOSE d \in 1..Len(DigitChars) : DigitChars[d] = c) - 1

NaN == -1

RECURSIVE ParseDigits(_, _)
ParseDigits(t, acc) ==
  IF t # <<>> /\ IsDigit(Head(t))
  THEN ParseDigits(Tail(t), 10 * acc + DigitValue(Head(t)))
  ELSE acc

(* parseInt of a string without a sign: the leading digits after the leading *)
(* white space, NaN when there are none                                      *)
ParseInt(t) ==
  LET u == TrimLeft(t)
  IN  IF u # <<>> /\ IsDigit(Head(u)) THEN ParseDigits(u, 0) ELSE NaN

----------------------------------------------------------------------------
(* extractTextFromFile (part_002) *)

Returned(v) == [ok |-> TRUE, value |-> v, message |-> ""]

Thrown(msg) == [ok |-> FALSE, value |-> "", message |-> msg]

File(m, e, c) == [mime |-> m, ext |-> e, content |-> c]

NoFile == File("", "", "none")

PdfMime == "application/pdf"

DocxMime == "application/vnd.openxmlformats-officedocument.wordprocessingml.document"

TxtMime == "text/plain"

(* The files the user selects.  content: "text" (readable text), "blank" (no *)
(* text in it), "corrupt" (the parsing library or the reader fails).         *)
FileChoices ==
  {File(PdfMime, "pdf", "blank"), File(DocxMime, "docx", "corrupt"),
   File("", "txt", "text"), File(TxtMime, "txt", "blank"),
   File("image/png", "png", "text")}

MsgExtractFailed ==
  "Failed to extract text from file. Please check the file format and try again."

extractTextFromPDF(file) ==
  CASE file.content = "corrupt" ->
         Thrown("Failed to process PDF file. Try another PDF or convert to DOCX/TXT.")
    [] file.content = "blank" -> Returned("No readable text found in PDF.")
    [] OTHER -> Returned("text")

extractTextFromDOCX(file) ==
  CASE file.content = "corrupt" ->
         Thrown("Failed to process DOCX file. Please check the file format.")
    [] file.content = "blank" -> Returned("")
    [] OTHER -> Returned("text")

extractTextFromTXT(file) ==
  CASE file.content = "corrupt" -> Thrown("Failed to read text file")
    [] file.content = "blank" -> Returned("")
    [] OTHER -> Returned("text")

(* The file matches none of the three branches of extractTextFromFile *)
UnsupportedFile(file) ==
  /\ file.mime \notin {PdfMime, DocxMime, TxtMime}
  /\ file.ext \notin {"pdf", "docx", "txt"}

(* An extraction that reads a file of any other type as text *)
extractTextFromAnyFile(file) ==
  LET r == CASE file.mime = PdfMime \/ file.ext = "pdf" -> extractTextFromPDF(file)
             [] file.mime = DocxMime \/ file.ext = "docx" -> extractTextFromDOCX(file)
             [] OTHER -> extractTextFromTXT(file)
  IN  IF r.ok THEN r ELSE Thrown(MsgExtractFailed)

extractTextFromFile(file) ==
  LET r == CASE file.mime = PdfMime \/ file.ext = "pdf" -> extractTextFromPDF(file)
             [] file.mime = DocxMime \/ file.ext = "docx" -> extractTextFromDOCX(file)
             [] file.mime = TxtMime \/ file.ext = "txt" -> extractTextFromTXT(file)
             [] OTHER -> Thrown("Unsupported file type")
  IN  IF r.ok THEN r ELSE Thrown(MsgExtractFailed)

----------------------------------------------------------------------------
(* The response of the generation request *)

Response(net, status, err, text, arr) ==
  [net |-> net, status |-> status, err |-> err, text |-> text, arr |-> arr]

(* fetch rejects *)
NetworkError == Response("error", 0, "", "", <<>>)

(* The body of an error response: not JSON, JSON without an error field, an  *)
(* error without a message, an error with a message, an error with quota     *)
(* details (and a message), the same with a retry delay.                     *)
ErrorBodies == {"notjson", "noerror", "nomessage", "message", "quota", "quotaRetry"}

ErrorResponses ==
  {Response("ok", st, e, "", <<>>) : st \in {429, 500}, e \in ErrorBodies}

(* The body of a 200 response: not JSON, JSON without the text field, an     *)
(* empty text, a text without a bracketed array, a text whose matched array  *)
(* is not JSON, a text whose matched array parses to arr.                    *)
OkResponses ==
  {Response("ok", 200, "", t, <<>>) :
     t \in {"nojson", "missing", "empty", "noarray", "badjson"}}
  \cup {Response("ok", 200, "", "array", a) : a \in ParsedArrays}

Responses == {NetworkError} \cup ErrorResponses \cup OkResponses

(* The responses the attempts of the generator receive: the arrays in them   *)
(* have at most MaxFetchedLen elements                                       *)
FetchedResponses == {resp \in Responses : Len(resp.arr) <= MaxFetchedLen}

ResponseOk(resp) == resp.status \in 200..299

MsgFetchFailed == "Failed to fetch"

MsgNotJson == "Unexpected token < in JSON at position 0"

MsgNullElement == "Cannot read properties of null (reading 'question')"

MsgServer == "Resource has been exhausted (e.g. check quota)."

ApiErrorMsg(resp) ==
  IF resp.status = 429 THEN "API Error: 429 Too Many Requests"
  ELSE "API Error: 500 Internal Server Error"

(* generateQuiz, from the response on *)
generateQuizResponse(resp) ==
  CASE resp.net = "error" -> Thrown(MsgFetchFailed)
    [] ~ResponseOk(resp) -> Thrown(ApiErrorMsg(resp))
    [] resp.text = "nojson" -> Thrown(MsgNotJson)
    [] resp.text \in {"missing", "empty"} -> Thrown("No response from AI")
    [] resp.text = "noarray" -> Thrown("Invalid response format from AI")
    [] resp.text = "badjson" -> Thrown(MsgNotJson)
    [] Len(resp.arr) = 0 -> Thrown("No valid questions generated")
    [] isValidFormat(resp.arr) = "throws" -> Thrown(MsgNullElement)
    [] isValidFormat(resp.arr) = "false" ->
         Thrown("Generated questions have invalid format")
    [] OTHER -> Returned(resp.arr)

(* generateVoiceQuizFrom: the message of a 429 response *)
RateLimitMsg(resp) ==
  CASE resp.err \in {"notjson", "noerror", "nomessage"} ->
         "API rate limit exceeded. Please try again later."
    [] resp.err = "quota" ->
         "API quota exceeded. requests limit: 10 requests. Please try again later."
    [] resp.err = "quotaRetry" ->
         "API quota exceeded. requests limit: 10 requests. Please retry in 30 seconds."
    [] OTHER -> MsgServer

(* generateVoiceQuizFrom, from the response on *)
generateVoiceQuizFromResponse(resp) ==
  CASE resp.net = "error" -> Thrown(MsgFetchFailed)
    [] resp.status = 429 -> Thrown(RateLimitMsg(resp))
    [] ~ResponseOk(resp) ->
         IF resp.err \in {"message", "quota", "quotaRetry"} THEN Thrown(MsgServer)
         ELSE Thrown(ApiErrorMsg(resp))
    [] resp.text = "nojson" -> Thrown(MsgNotJson)
    [] resp.text \in {"missing", "empty"} -> Thrown("No response from AI")
    [] resp.text = "noarray" -> Thrown("Invalid response format from AI")
    [] resp.text = "badjson" -> Thrown(MsgNotJson)
    [] Len(resp.arr) = 0 -> Thrown("No valid questions generated")
    [] isValidFormat(resp.arr) = "throws" -> Thrown(MsgNullElement)
    [] isValidFormat(resp.arr) = "false" ->
         Thrown("Generated questions have invalid format")
    [] OTHER -> Returned(resp.arr)
(* The Generate button: generateVoiceQuiz for voice, generateQuiz otherwise *)
ResponseResult(path, resp) ==
  IF path = "voice" THEN generateVoiceQuizFromResponse(resp)
  ELSE generateQuizResponse(resp)

RespInit ==
  /\ fetchedPath \in {"doc", "voice"}
  /\ fetched \in Responses
  /\ handled = FALSE
  /\ result = Thrown("")

RespIdle ==
  /\ fetchedPath = "doc"
  /\ fetched = NetworkError
  /\ handled = FALSE
  /\ result = Thrown("")

(* The code of generateQuiz / generateVoiceQuizFrom that follows the fetch *)
HandleResponse ==
  /\ OnlyResp
  /\ ~handled
  /\ handled' = TRUE
  /\ result' = ResponseResult(fetchedPath, fetched)
  /\ UNCHANGED <<fetchedPath, fetched>>

----------------------------------------------------------------------------
(* Index and QuizGenerator: state *)

ThrottleMs == 2000

DefaultQuestionCount == 10

TickMs == ThrottleMs

Responses3(t, c, d) == [topic |-> t, questionCount |-> c, difficulty |-> d]

EmptyResponses == Responses3(<<>>, <<>>, "")

IdleAttempt == [pc |-> "idle", path |-> "none", file |-> NoFile]

Toast(title, description) == [title |-> title, description |-> description]

Click(afterFailure, did, path, sent) ==
  [afterFailure |-> afterFailure, result |-> did, path |-> path, sent |-> sent]

NoClick == Click(FALSE, "none", "none", FALSE)

Request(path, content, topic, count, difficulty) ==
  [path |-> path, content |-> content, topic |-> topic, questionCount |-> count,
   difficulty |-> difficulty]

NoRequest == Request("none", "", <<>>, 0, "")

WebLinks == {<<>>, <<" ">>, <<"u">>}

(* What a completed voice conversation can leave in voiceResponses *)
VoiceTopics == {<<"c", "a", "t">>}

VoiceCounts == {<<"5">>, <<"0">>}

VoiceDifficulties == {"easy"}

(* The SpeechRecognition objects that are followed at a time: the one that   *)
(* recognitionRef let go of and the one that was made after it               *)
SessionIds == {1, 2}

(* recognition.stop() on the sessions of S *)
Stopped(S) ==
  [s \in SessionIds |->
     IF s \in S /\ sessions[s].state \in {"started", "listening"}
     THEN [sessions[s] EXCEPT !.state = "stopping"] ELSE sessions[s]]

(* The object recognitionRef.current, as a set of sessions *)
Current == IF recognitionRef = 0 THEN {} ELSE {recognitionRef}


(* The state of a QuizGenerator that has just been mounted *)
GeneratorMounted ==
  /\ inputType = "file"
  /\ selectedFile = NoFile
  /\ webLink = <<>>
  /\ isVoiceInputComplete = FALSE
  /\ voiceResponses = EmptyResponses
  /\ showVoiceModal = FALSE
  /\ isGenerating = FALSE
  /\ isGeneratingQuizRef = FALSE
  /\ lastQuizGenerationRef = 0
  /\ attempt = IdleAttempt

(* Delivery unmounts the generator; the next one is mounted afresh *)
GeneratorUnmounts ==
  /\ inputType' = "file"
  /\ selectedFile' = NoFile
  /\ webLink' = <<>>
  /\ isVoiceInputComplete' = FALSE
  /\ voiceResponses' = EmptyResponses
  /\ showVoiceModal' = FALSE
  /\ isGenerating' = FALSE
  /\ isGeneratingQuizRef' = FALSE
  /\ lastQuizGenerationRef' = 0
  /\ attempt' = IdleAttempt

(* No generator activity: the state of these variables outside the generator *)
GenIdle ==
  /\ appState = "generator"
  /\ quizQuestions = <<>>
  /\ apiKey = TRUE
  /\ GeneratorMounted
  /\ now = ThrottleMs
  /\ request = NoRequest
  /\ toasts = <<>>
  /\ outcome = "none"
  /\ attemptRequests = 0
  /\ inFlight = 0
  /\ lastClick = NoClick

(* A quiz was delivered and is being taken: Index shows QuizTaking with the  *)
(* questions, and no generator is mounted                                    *)
GenTaking ==
  /\ appState = "taking"
  /\ quizQuestions = questions
  /\ apiKey = TRUE
  /\ GeneratorMounted
  /\ now = ThrottleMs
  /\ request = NoRequest
  /\ toasts = <<>>
  /\ outcome = "none"
  /\ attemptRequests = 0
  /\ inFlight = 0
  /\ lastClick = NoClick

(* Date.now() is far above ThrottleMs when the page loads; the model starts  *)
(* the clock at ThrottleMs, the least value with the same behaviour.         *)
GenInit ==
  /\ appState = "generator"
  /\ quizQuestions = <<>>
  /\ apiKey \in BOOLEAN
  /\ GeneratorMounted
  /\ now = ThrottleMs
  /\ request = NoRequest
  /\ toasts = <<>>
  /\ outcome = "none"
  /\ attemptRequests = 0
  /\ inFlight = 0
  /\ lastClick = NoClick

(* settings.questionCount, settings.difficulty and settings.questionType are *)
(* always truthy (10/medium/mcq, then a choice of the selects or the voice   *)
(* values), so they do not appear here.                                      *)
isReadyToGenerate ==
  /\ apiKey
  /\ \/ inputType = "file" /\ selectedFile # NoFile
     \/ inputType = "web" /\ Trim(webLink) # <<>>
     \/ /\ inputType = "voice"
        /\ isVoiceInputComplete
        /\ Trim(voiceResponses.topic) # <<>>
        /\ voiceResponses.questionCount # <<>>
        /\ voiceResponses.difficulty # ""

(* A button that is not disabled while an attempt runs *)
GenerateDisabledWhenNotReady == ~isReadyToGenerate

GenerateDisabled == ~isReadyToGenerate \/ isGenerating

(* lastClick describes the last Generate click; once the attempt has ended,  *)
(* the next other event clears it.                                           *)
Forget ==
  /\ lastClick' = (IF attempt.pc = "idle" THEN NoClick ELSE lastClick)
  /\ UNCHANGED toasts

----------------------------------------------------------------------------
(* QuizGenerator: the inputs *)

setInputType(t) ==
  /\ OnlyGen
  /\ appState = "generator"
  /\ inputType' = t
  /\ isVoiceInputComplete' = FALSE
  /\ UNCHANGED <<appState, quizQuestions, apiKey, selectedFile, webLink,
                 voiceResponses, showVoiceModal, isGenerating,
                 isGeneratingQuizRef, lastQuizGenerationRef, now, attempt,
                 request, outcome, attemptRequests,
                 inFlight>>
  /\ Forget

(* FileUpload: onFileSelect and onClearFile *)
setSelectedFile(f) ==
  /\ OnlyGen
  /\ appState = "generator"
  /\ inputType = "file"
  /\ selectedFile' = f
  /\ UNCHANGED <<appState, quizQuestions, apiKey, inputType, webLink,
                 isVoiceInputComplete, voiceResponses, showVoiceModal,
                 isGenerating, isGeneratingQuizRef, lastQuizGenerationRef, now,
                 attempt, request, outcome, attemptRequests,
                 inFlight>>
  /\ Forget

setWebLink(w) ==
  /\ OnlyGen
  /\ appState = "generator"
  /\ inputType = "web"
  /\ webLink' = w
  /\ UNCHANGED <<appState, quizQuestions, apiKey, inputType, selectedFile,
                 isVoiceInputComplete, voiceResponses, showVoiceModal,
                 isGenerating, isGeneratingQuizRef, lastQuizGenerationRef, now,
                 attempt, request, outcome, attemptRequests,
                 inFlight>>
  /\ Forget

(* A whole voice conversation, from Start Voice Conversation to the answer   *)
(* at the difficulty step: startVoiceConversation clears the two flags and   *)
(* the responses, processVoiceResponse stores the three answers, closes the  *)
(* modal and marks the voice input complete.  Its steps are the actions of   *)
(* the voice conversation below.                                             *)
VoiceConversation(t, c, d) ==
  /\ OnlyGen
  /\ appState = "generator"
  /\ inputType = "voice"
  /\ ~isGenerating                      \* the Start button is not disabled
  /\ isGeneratingQuizRef' = FALSE
  /\ voiceResponses' = Responses3(t, c, d)
  /\ showVoiceModal' = FALSE
  /\ isVoiceInputComplete' = TRUE
  /\ UNCHANGED <<appState, quizQuestions, apiKey, inputType, selectedFile,
                 webLink, isGenerating, lastQuizGenerationRef, now, attempt,
                 request, outcome, attemptRequests,
                 inFlight>>
  /\ Forget

(* The Start Over button *)
StartOver ==
  /\ OnlyGen
  /\ appState = "generator"
  /\ inputType = "voice"
  /\ isVoiceInputComplete
  /\ isVoiceInputComplete' = FALSE
  /\ voiceResponses' = EmptyResponses
  /\ UNCHANGED <<appState, quizQuestions, apiKey, inputType, selectedFile,
                 webLink, showVoiceModal, isGenerating, isGeneratingQuizRef,
                 lastQuizGenerationRef, now, attempt, request, outcome,
                 attemptRequests, inFlight>>
  /\ Forget

(* Time passes *)
Tick ==
  /\ OnlyGen
  /\ now < ThrottleMs + MaxTicks * TickMs
  /\ now' = now + TickMs
  /\ UNCHANGED <<appState, quizQuestions, apiKey, inputType, selectedFile,
                 webLink, isVoiceInputComplete, voiceResponses, showVoiceModal,
                 isGenerating, isGeneratingQuizRef, lastQuizGenerationRef,
                 attempt, request, outcome, attemptRequests,
                 inFlight>>
  /\ Forget

----------------------------------------------------------------------------
(* QuizGenerator: the generation attempt *)

(* generateQuiz up to its first await: extractTextFromFile for a file, fetch *)
(* for a web link                                                            *)
generateQuiz ==
  /\ isReadyToGenerate
  /\ isGenerating' = TRUE
  /\ IF inputType = "file"
     THEN /\ toasts' = <<Toast("Processing document...", "")>>
          /\ attempt' = [pc |-> "extracting", path |-> "doc", file |-> selectedFile]
          /\ attemptRequests' = 0
          /\ inFlight' = inFlight
          /\ request' = NoRequest
     ELSE /\ toasts' = <<Toast("Processing web content...", ""),
                         Toast("Generating quiz...", "")>>
          /\ attempt' = [pc |-> "fetching", path |-> "doc", file |-> NoFile]
          /\ attemptRequests' = 1
          /\ inFlight' = inFlight + 1
          /\ request' = Request("doc", "web", <<>>, 0, "")
  /\ outcome' = "running"
  /\ lastClick' = Click(outcome = "failed", "started", inputType, inputType = "web")
  /\ UNCHANGED <<appState, quizQuestions, apiKey, inputType, selectedFile,
                 webLink, isVoiceInputComplete, voiceResponses, showVoiceModal,
                 isGeneratingQuizRef, lastQuizGenerationRef, now>>

(* The guards of generateVoiceQuiz *)
VoiceClickRefused ==
  \/ isGeneratingQuizRef
  \/ isGenerating
  \/ now - lastQuizGenerationRef < ThrottleMs

(* parseInt(questionCount) without the replacement by 10 *)
VoiceQuestionCountAsParsed == ParseInt(voiceResponses.questionCount)

(* parseInt(questionCount) || 10 *)
VoiceQuestionCount ==
  LET n == ParseInt(voiceResponses.questionCount)
  IN  IF n = NaN \/ n = 0 THEN DefaultQuestionCount ELSE n

VoiceDifficulty ==
  IF voiceResponses.difficulty = "" THEN "medium" ELSE voiceResponses.difficulty

(* generateVoiceQuiz and generateVoiceQuizFrom up to the await of fetch; the *)
(* Generate button adds the recognition.stop() of generateVoiceQuiz          *)
generateVoiceQuiz ==
  IF VoiceClickRefused
  THEN /\ lastClick' = Click(outcome = "failed", "ignored", "voice", FALSE)
       /\ UNCHANGED <<appState, quizQuestions, apiKey, inputType, selectedFile,
                      webLink, isVoiceInputComplete, voiceResponses,
                      showVoiceModal, isGenerating, isGeneratingQuizRef,
                      lastQuizGenerationRef, now, attempt, request, toasts,
                      outcome, attemptRequests, inFlight>>
  ELSE IF Trim(voiceResponses.topic) = <<>>
  THEN /\ lastQuizGenerationRef' = now
       /\ isGeneratingQuizRef' = FALSE
       /\ toasts' = <<Toast("Missing topic",
                            "Please provide a topic to generate the quiz.")>>
       /\ lastClick' = Click(outcome = "failed", "missing topic", "voice", FALSE)
       /\ UNCHANGED <<appState, quizQuestions, apiKey, inputType, selectedFile,
                      webLink, isVoiceInputComplete, voiceResponses,
                      showVoiceModal, isGenerating, now, attempt, request,
                      outcome, attemptRequests, inFlight>>
  ELSE /\ isGeneratingQuizRef' = TRUE
       /\ lastQuizGenerationRef' = now
       /\ showVoiceModal' = FALSE
       /\ isGenerating' = TRUE
       /\ toasts' = <<Toast("Generating quiz...", "")>>
       /\ attempt' = [pc |-> "fetching", path |-> "voice", file |-> NoFile]
       /\ attemptRequests' = 1
       /\ inFlight' = inFlight + 1
       /\ request' = Request("voice", "topic", Trim(voiceResponses.topic),
                             VoiceQuestionCount, VoiceDifficulty)
       /\ outcome' = "running"
            /\ lastClick' = Click(outcome = "failed", "started", "voice", TRUE)
       /\ UNCHANGED <<appState, quizQuestions, apiKey, inputType, selectedFile,
                      webLink, isVoiceInputComplete, voiceResponses, now>>

(* The Generate Quiz button *)
GenerateClick ==
  /\ UNCHANGED <<quizVars, matchVars, respVars, conversationStepRef,
                 isListening, isProcessingRef, currentTranscriptRef,
                 recognitionRef, silenceTimer, pending, history>>
  /\ sessions' =
       (IF inputType = "voice" /\ ~VoiceClickRefused
           /\ Trim(voiceResponses.topic) # <<>>
        THEN Stopped(Current) ELSE sessions)
  /\ appState = "generator"
  /\ ~GenerateDisabled
  /\ IF inputType = "voice" THEN generateVoiceQuiz ELSE generateQuiz

(* A catch that shows nothing *)
AttemptFailsSilently(msg) ==
  /\ isGenerating' = FALSE
  /\ isGeneratingQuizRef' =
       (IF attempt.path = "voice" THEN FALSE ELSE isGeneratingQuizRef)
  /\ attempt' = IdleAttempt
  /\ request' = NoRequest
  /\ outcome' = "failed"
  /\ inFlight' = (IF attempt.pc = "fetching" THEN inFlight - 1 ELSE inFlight)
  /\ UNCHANGED <<appState, quizQuestions, apiKey, inputType, selectedFile,
                 webLink, isVoiceInputComplete, voiceResponses, showVoiceModal,
                 lastQuizGenerationRef, now, attemptRequests, lastClick, toasts>>

(* A catch that sends the request again *)
AttemptRetries(msg) ==
  /\ attempt' = [attempt EXCEPT !.pc = "fetching"]
  /\ attemptRequests' = attemptRequests + 1
  /\ inFlight' = (IF attempt.pc = "fetching" THEN inFlight ELSE inFlight + 1)
  /\ request' = Request(attempt.path, "again", <<>>, 0, "")
  /\ UNCHANGED <<appState, quizQuestions, apiKey, inputType, selectedFile,
                 webLink, isVoiceInputComplete, voiceResponses, showVoiceModal,
                 isGenerating, isGeneratingQuizRef, lastQuizGenerationRef, now,
                 outcome, lastClick, toasts>>

(* A finally that leaves isGeneratingQuizRef set *)
AttemptFailsKeepsFlag(msg) ==
  /\ toasts' = Append(toasts, Toast("Generation failed", msg))
  /\ isGenerating' = FALSE
  /\ attempt' = IdleAttempt
  /\ request' = NoRequest
  /\ outcome' = "failed"
  /\ inFlight' = (IF attempt.pc = "fetching" THEN inFlight - 1 ELSE inFlight)
  /\ UNCHANGED <<appState, quizQuestions, apiKey, inputType, selectedFile,
                 webLink, isVoiceInputComplete, voiceResponses, showVoiceModal,
                 isGeneratingQuizRef, lastQuizGenerationRef, now,
                 attemptRequests, lastClick>>

(* A finally that leaves isGenerating set *)
AttemptFailsStaysBusy(msg) ==
  /\ toasts' = Append(toasts, Toast("Generation failed", msg))
  /\ isGeneratingQuizRef' =
       (IF attempt.path = "voice" THEN FALSE ELSE isGeneratingQuizRef)
  /\ attempt' = IdleAttempt
  /\ request' = NoRequest
  /\ outcome' = "failed"
  /\ inFlight' = (IF attempt.pc = "fetching" THEN inFlight - 1 ELSE inFlight)
  /\ UNCHANGED <<appState, quizQuestions, apiKey, inputType, selectedFile,
                 webLink, isVoiceInputComplete, voiceResponses, showVoiceModal,
                 isGenerating, lastQuizGenerationRef, now, attemptRequests,
                 lastClick>>

(* catch and finally of generateQuiz / generateVoiceQuizFrom *)
AttemptFails(msg) ==
  /\ toasts' = Append(toasts, Toast("Generation failed", msg))
  /\ isGenerating' = FALSE
  /\ isGeneratingQuizRef' =
       (IF attempt.path = "voice" THEN FALSE ELSE isGeneratingQuizRef)
  /\ attempt' = IdleAttempt
  /\ request' = NoRequest
  /\ outcome' = "failed"
  /\ inFlight' = (IF attempt.pc = "fetching" THEN inFlight - 1 ELSE inFlight)
  /\ UNCHANGED <<appState, quizQuestions, apiKey, inputType, selectedFile,
                 webLink, isVoiceInputComplete, voiceResponses, showVoiceModal,
                 lastQuizGenerationRef, now, attemptRequests, lastClick>>

(* The success toast, onQuizGenerated (handleQuizGenerated of Index), and    *)
(* the unmounting of the generator that follows                              *)
AttemptDelivers(qs) ==
  /\ toasts' = Append(toasts, Toast("Quiz generated successfully!", ""))
  /\ quizQuestions' = qs
  /\ appState' = "taking"
  /\ GeneratorUnmounts
  /\ request' = NoRequest
  /\ outcome' = "delivered"
  /\ inFlight' = (IF attempt.pc = "fetching" THEN inFlight - 1 ELSE inFlight)
  /\ UNCHANGED <<apiKey, now, attemptRequests, lastClick>>

(* await extractTextFromFile settles; generateQuiz goes on to the fetch *)
ExtractionSettles ==
  /\ OnlyGen
  /\ attempt.pc = "extracting"
  /\ LET r == extractTextFromFile(attempt.file)
     IN  IF ~r.ok
         THEN AttemptFails(r.message)
         ELSE IF r.value = ""
         THEN AttemptFails("No text could be extracted from the file")
         ELSE /\ toasts' = Append(toasts, Toast("Generating quiz...", ""))
              /\ attempt' = [attempt EXCEPT !.pc = "fetching"]
              /\ attemptRequests' = attemptRequests + 1
              /\ inFlight' = inFlight + 1
              /\ request' = Request("doc", r.value, <<>>, 0, "")
              /\ UNCHANGED <<appState, quizQuestions, apiKey, inputType,
                             selectedFile, webLink, isVoiceInputComplete,
                             voiceResponses, showVoiceModal, isGenerating,
                             isGeneratingQuizRef, lastQuizGenerationRef, now,
                             outcome, lastClick>>

(* await fetch settles with resp; the rest of the attempt runs *)
FetchSettles(resp) ==
  /\ OnlyGen
  /\ attempt.pc = "fetching"
  /\ LET r == ResponseResult(attempt.path, resp)
     IN  IF r.ok THEN AttemptDelivers(r.value) ELSE AttemptFails(r.message)

(* A handleRestart that only changes the screen *)
RestartedKeepsQuestions ==
  /\ appState = "taking"
  /\ quizQuestions' = quizQuestions
  /\ appState' = "generator"
  /\ UNCHANGED <<apiKey, inputType, selectedFile, webLink,
                 isVoiceInputComplete, voiceResponses, showVoiceModal,
                 isGenerating, isGeneratingQuizRef, lastQuizGenerationRef, now,
                 attempt, request, outcome, attemptRequests,
                 inFlight>>
  /\ Forget

(* Index.handleRestart: Try Another Quiz on the results screen *)
Restarted ==
  /\ appState = "taking"
  /\ quizQuestions' = <<>>
  /\ appState' = "generator"
  /\ UNCHANGED <<apiKey, inputType, selectedFile, webLink,
                 isVoiceInputComplete, voiceResponses, showVoiceModal,
                 isGenerating, isGeneratingQuizRef, lastQuizGenerationRef, now,
                 attempt, request, outcome, attemptRequests,
                 inFlight>>
  /\ Forget

handleRestart == OnlyGen /\ Restarted

(* Try Another Quiz on the results screen of QuizTaking: onRestart is        *)
(* Index.handleRestart, and QuizTaking is unmounted with whatever it left    *)
onRestart ==
  /\ Mounted
  /\ isQuizComplete
  /\ Restarted
  /\ currentQuestionIndex' = 0
  /\ userAnswers' = <<>>
  /\ selectedOption' = NoOption
  /\ showAnswer' = FALSE
  /\ credits' = InitialCredits
  /\ isQuizComplete' = FALSE
  /\ usedHints' = {}
  /\ advanceTimers' = Orphaned(advanceTimers)
  /\ UNCHANGED <<questions, matchVars, respVars, voiceVars>>

(* Index.handleQuizGenerated when the next quiz arrives: a new QuizTaking is *)
(* mounted with qs, its state being the initial values of its useState calls *)
handleQuizGenerated(qs) ==
  /\ appState = "generator"
  /\ quizQuestions' = qs
  /\ appState' = "taking"
  /\ questions' = qs
  /\ currentQuestionIndex' = 0
  /\ userAnswers' = <<>>
  /\ selectedOption' = NoOption
  /\ showAnswer' = FALSE
  /\ credits' = InitialCredits
  /\ isQuizComplete' = FALSE
  /\ usedHints' = {}
  /\ UNCHANGED <<advanceTimers, matchVars, respVars, voiceVars, apiKey,
                 inputType, selectedFile, webLink, isVoiceInputComplete,
                 voiceResponses, showVoiceModal, isGenerating,
                 isGeneratingQuizRef, lastQuizGenerationRef, now, attempt,
                 request, toasts, outcome, attemptRequests, inFlight, lastClick>>

(* One quiz of HintQuizLen questions, taken by a user who always picks the   *)
(* first option                                                              *)
HintsNext ==
  \/ handleOptionSelect(0)
  \/ handleNextQuestion
  \/ handlePreviousQuestion
  \/ handleUseHint
  \/ AutoAdvance
  \/ StaleAdvance

QuizNext ==
  \/ \E o \in OptionClicks : handleOptionSelect(o)
  \/ handleNextQuestion
  \/ handlePreviousQuestion
  \/ handleUseHint
  \/ AutoAdvance
  \/ StaleAdvance
  \/ onRestart
  \/ \E qs \in QuizQuestionLists : handleQuizGenerated(qs)

(* The ways the fetch of an attempt settles: it rejects, the API refuses,    *)
(* the text holds no array, the text holds one question                      *)
AttemptOutcomes ==
  {NetworkError,
   Response("ok", 429, "quota", "", <<>>),
   Response("ok", 200, "", "noarray", <<>>),
   Response("ok", 200, "", "array",
            <<Elem(FALSE, Str("Q"), Arr(NumOptions), Num(2, TRUE), Str("h"))>>)}

(* The attempts of the three input types, one after the other: a file that   *)
(* is read and one that is not, a link, a voice input                        *)
AttemptNext ==
  \/ \E t \in {"file", "web", "voice"} : setInputType(t)
  \/ \E f \in {File("", "txt", "text"), File("image/png", "png", "text")} :
       setSelectedFile(f)
  \/ setWebLink(<<"u">>)
  \/ \E t \in VoiceTopics, c \in VoiceCounts, d \in VoiceDifficulties :
       VoiceConversation(t, c, d)
  \/ Tick
  \/ GenerateClick
  \/ ExtractionSettles
  \/ \E resp \in AttemptOutcomes : FetchSettles(resp)
  \/ handleRestart

GenNext ==
  \/ \E t \in {"file", "web", "voice"} : setInputType(t)
  \/ \E f \in FileChoices \cup {NoFile} : setSelectedFile(f)
  \/ \E w \in WebLinks : setWebLink(w)
  \/ \E t \in VoiceTopics, c \in VoiceCounts, d \in VoiceDifficulties :
       VoiceConversation(t, c, d)
  \/ StartOver
  \/ Tick
  \/ GenerateClick
  \/ ExtractionSettles
  \/ \E resp \in FetchedResponses : FetchSettles(resp)
  \/ handleRestart

----------------------------------------------------------------------------
(* QuizGenerator: the voice conversation *)

(* String.prototype.toLowerCase on the letters the transcripts use *)
UpperCase ==
  <<"A", "B", "C", "D", "E", "F", "G", "H", "I", "J", "K", "L", "M",
    "N", "O", "P", "Q", "R", "S", "T", "U", "V", "W", "X", "Y", "Z">>

LowerCase ==
  <<"a", "b", "c", "d", "e", "f", "g", "h", "i", "j", "k", "l", "m",
    "n", "o", "p", "q", "r", "s", "t", "u", "v", "w", "x", "y", "z">>

LowerChar(c) ==
  IF \E i \in 1..Len(UpperCase) : UpperCase[i] = c
  THEN LowerCase[CHOOSE i \in 1..Len(UpperCase) : UpperCase[i] = c]
  ELSE c

ToLower(t) == [k \in 1..Len(t) |-> LowerChar(t[k])]

(* String.prototype.includes *)
Includes(t, w) ==
  \E i \in 1..(Len(t) - Len(w) + 1) : SubSeq(t, i, i + Len(w) - 1) = w

(* t.match(/\d+/): the first run of digits of t, <<>> when t has no digit *)
FirstDigits(t) ==
  LET starts == {i \in 1..Len(t) : IsDigit(t[i])}
  IN  IF starts = {} THEN <<>>
      ELSE LET i == Min(starts)
               ends == {j \in i..Len(t) : \A k \in i..j : IsDigit(t[k])}
           IN  SubSeq(t, i, Max(ends))

(* The question count processVoiceResponse takes from what was said *)
SpokenCount(lowerTranscript) ==
  IF FirstDigits(lowerTranscript) = <<>> THEN <<"1", "0">>
  ELSE FirstDigits(lowerTranscript)

(* A mapping that looks for the words of 'hard' first *)
SpokenDifficultyHardFirst(lowerTranscript) ==
  IF \/ Includes(lowerTranscript, <<"h", "a", "r", "d">>)
     \/ Includes(lowerTranscript, <<"d", "i", "f", "f", "i", "c", "u", "l", "t">>)
     \/ Includes(lowerTranscript, <<"a", "d", "v", "a", "n", "c", "e", "d">>)
  THEN "hard"
  ELSE IF \/ Includes(lowerTranscript, <<"e", "a", "s", "y">>)
          \/ Includes(lowerTranscript, <<"s", "i", "m", "p", "l", "e">>)
  THEN "easy"
  ELSE "medium"

(* The difficulty processVoiceResponse takes from what was said *)
SpokenDifficulty(lowerTranscript) ==
  IF \/ Includes(lowerTranscript, <<"e", "a", "s", "y">>)
     \/ Includes(lowerTranscript, <<"s", "i", "m", "p", "l", "e">>)
  THEN "easy"
  ELSE IF \/ Includes(lowerTranscript, <<"h", "a", "r", "d">>)
          \/ Includes(lowerTranscript, <<"d", "i", "f", "f", "i", "c", "u", "l", "t">>)
          \/ Includes(lowerTranscript, <<"a", "d", "v", "a", "n", "c", "e", "d">>)
  THEN "hard"
  ELSE "medium"

(* A result event, as onresult reads it: the final results from resultIndex  *)
(* on, joined, and the interim ones                                          *)
SpeechEvent(final, interim) == [final |-> final, interim |-> interim]

SpeechEvents ==
  {SpeechEvent(<<>>, <<"u", "m">>),
   SpeechEvent(<<"h", "i">>, <<>>),
   SpeechEvent(<<"E", "a", "s", "y", "5">>, <<>>),
   SpeechEvent(<<"s", "i", "x">>, <<>>),
   SpeechEvent(<<"a">>, <<>>)}

(* What the user says at a step of the conversation: a filler, a word that   *)
(* is too short for a topic, a phrase with digits in it, when asked for the  *)
(* number of questions a number word in place of the short word, and when    *)
(* asked for the topic also a single letter                                  *)
Said(step) ==
  {ev \in SpeechEvents :
     CASE step = "questions" -> ev.final \notin {<<"h", "i">>, <<"a">>}
       [] step = "topic" -> ev.final # <<"s", "i", "x">>
       [] OTHER -> ev.final \notin {<<"s", "i", "x">>, <<"a">>}}

(* finalTranscript of onresult: each final result followed by a blank *)
FinalTranscript(ev) == IF ev.final = <<>> THEN <<>> ELSE ev.final \o <<" ">>

(* A SpeechRecognition object: "none" (no object here), "started" (start()   *)
(* called), "listening" (onstart delivered), "stopping" (stop() called: the  *)
(* service may still return one result), "ending" (only the end event is     *)
(* left), "ended".  handlers: onresult, onerror and onend are attached.      *)
Session(st, handlers) == [state |-> st, handlers |-> handlers]

NoSession == Session("none", FALSE)

(* The timers that are pending.  listen0: a prompt being spoken and the      *)
(* timer after it that calls startListening; listen: the same with the timer *)
(* that first reads isGeneratingQuizRef; create: the timer of startListening *)
NoPending == [listen0 |-> 0, listen |-> 0, create |-> 0]

PendingCount ==
  pending.listen0 + pending.listen + pending.create

NoHistory == [processed |-> 0]

(* A SpeechRecognition object that can run no handler any more (it has       *)
(* ended, or it was stopped with its handlers detached) is garbage: its      *)
(* place is free for the next object, and what is remembered of it is        *)
(* forgotten.                                                                *)
Dropped(ss) ==
  [s \in SessionIds |->
     IF \/ ss[s].state = "ended"
        \/ ~ss[s].handlers /\ ss[s].state \notin {"started", "listening"}
     THEN NoSession ELSE ss[s]]

Remembered(ss, h) ==
  [s \in SessionIds |->
     IF ss[s].state = "none" THEN NoHistory ELSE h[s]]

VoiceIdle ==
  /\ conversationStepRef = "topic"
  /\ isListening = FALSE
  /\ isProcessingRef = FALSE
  /\ currentTranscriptRef = <<>>
  /\ recognitionRef = 0
  /\ sessions = [s \in SessionIds |-> NoSession]
  /\ silenceTimer = 0
  /\ pending = NoPending
  /\ history = [s \in SessionIds |-> NoHistory]

(* The generator with the voice input type chosen and nothing generating *)
VoiceInit ==
  /\ VoiceIdle
  /\ appState = "generator"
  /\ quizQuestions = <<>>
  /\ apiKey = TRUE
  /\ inputType = "voice"
  /\ selectedFile = NoFile
  /\ webLink = <<>>
  /\ isVoiceInputComplete = FALSE
  /\ voiceResponses = EmptyResponses
  /\ showVoiceModal = FALSE
  /\ isGenerating = FALSE
  /\ isGeneratingQuizRef = FALSE
  /\ lastQuizGenerationRef = 0
  /\ attempt = IdleAttempt
  /\ now = ThrottleMs
  /\ request = NoRequest
  /\ toasts = <<>>
  /\ outcome = "none"
  /\ attemptRequests = 0
  /\ inFlight = 0
  /\ lastClick = NoClick

(* What the voice conversation leaves alone *)
OnlyVoice ==
  UNCHANGED <<quizVars, matchVars, respVars, appState, quizQuestions, apiKey,
              inputType, selectedFile, webLink, isGenerating,
              lastQuizGenerationRef, now, attempt, request, outcome,
              attemptRequests, inFlight, lastClick>>

(* The Start Voice Conversation button, up to the await of the first prompt. *)
(* The modal covers the button while it is shown.                            *)
startVoiceConversation ==
  /\ OnlyVoice
  /\ appState = "generator"
  /\ inputType = "voice"
  /\ ~isGenerating
  /\ ~showVoiceModal
  /\ PendingCount < MaxPending
  /\ isProcessingRef' = FALSE
  /\ isGeneratingQuizRef' = FALSE
  /\ currentTranscriptRef' = <<>>
  /\ isVoiceInputComplete' = FALSE
  /\ sessions' = Stopped(Current)
  /\ recognitionRef' = 0
  /\ silenceTimer' = 0
  /\ showVoiceModal' = TRUE
  /\ conversationStepRef' = "topic"
  /\ voiceResponses' = EmptyResponses
  /\ pending' = [pending EXCEPT !.listen0 = @ + 1]
  /\ toasts' = <<>>
  /\ UNCHANGED <<isListening, history>>

(* A Cancel button that leaves the silence timer pending *)
CancelVoiceKeepsTimer ==
  /\ OnlyVoice
  /\ showVoiceModal
  /\ showVoiceModal' = FALSE
  /\ isProcessingRef' = FALSE
  /\ isGeneratingQuizRef' = FALSE
  /\ sessions' = Stopped(Current)
  /\ recognitionRef' = 0
  /\ UNCHANGED <<conversationStepRef, isListening, currentTranscriptRef,
                 pending, history, isVoiceInputComplete, voiceResponses,
                 silenceTimer>>
  /\ toasts' = <<>>

(* The Cancel button of the modal *)
CancelVoice ==
  /\ OnlyVoice
  /\ showVoiceModal
  /\ showVoiceModal' = FALSE
  /\ isProcessingRef' = FALSE
  /\ isGeneratingQuizRef' = FALSE
  /\ sessions' = Stopped(Current)
  /\ recognitionRef' = 0
  /\ silenceTimer' = 0
  /\ UNCHANGED <<conversationStepRef, isListening, currentTranscriptRef,
                 pending, history, isVoiceInputComplete, voiceResponses>>
  /\ toasts' = <<>>

(* startListening, up to its setTimeout; p is what is pending without the    *)
(* timer that made the call                                                  *)
startListening(p) ==
  IF isProcessingRef
  THEN /\ pending' = p
       /\ UNCHANGED <<sessions, recognitionRef, silenceTimer, history>>
  ELSE /\ sessions' =
            Dropped([s \in SessionIds |->
                       IF s \in Current
                       THEN [Stopped(Current)[s] EXCEPT !.handlers = FALSE]
                       ELSE sessions[s]])
       /\ history' = Remembered(sessions', history)
       /\ recognitionRef' = 0
       /\ silenceTimer' = 0
       /\ pending' = [p EXCEPT !.create = @ + 1]

(* speak() resolves and the timer after it calls startListening without a    *)
(* condition: the 300 ms timer of startVoiceConversation and the one after a *)
(* topic that was too short                                                  *)
ListenTimer0 ==
  /\ OnlyVoice
  /\ pending.listen0 > 0
  /\ startListening([pending EXCEPT !.listen0 = @ - 1])
  /\ UNCHANGED <<conversationStepRef, isListening, isProcessingRef,
                 currentTranscriptRef, isVoiceInputComplete,
                 voiceResponses, showVoiceModal, isGeneratingQuizRef>>
  /\ toasts' = <<>>

(* speak() resolves and the 500 ms timer of processVoiceResponse fires *)
ListenTimer ==
  /\ OnlyVoice
  /\ pending.listen > 0
  /\ IF ~isGeneratingQuizRef
     THEN startListening([pending EXCEPT !.listen = @ - 1])
     ELSE /\ pending' = [pending EXCEPT !.listen = @ - 1]
          /\ UNCHANGED <<sessions, recognitionRef, silenceTimer, history>>
  /\ UNCHANGED <<conversationStepRef, isListening, isProcessingRef,
                 currentTranscriptRef, isVoiceInputComplete,
                 voiceResponses, showVoiceModal, isGeneratingQuizRef>>
  /\ toasts' = <<>>

(* The sessions not created yet *)
FreeSessions == {s \in SessionIds : sessions[s].state = "none"}

(* The 100 ms timer of startListening: a new SpeechRecognition with its      *)
(* handlers, started                                                         *)
CreateTimer ==
  /\ OnlyVoice
  /\ pending.create > 0
  /\ pending' = [pending EXCEPT !.create = @ - 1]
  /\ IF isProcessingRef
     THEN UNCHANGED <<recognitionRef, currentTranscriptRef, sessions>>
     ELSE /\ FreeSessions # {}
          /\ recognitionRef' = Min(FreeSessions)
          /\ currentTranscriptRef' = <<>>
          /\ sessions' = [sessions EXCEPT ![Min(FreeSessions)] = Session("started", TRUE)]
  /\ UNCHANGED <<conversationStepRef, isListening, isProcessingRef,
                 silenceTimer, history, isVoiceInputComplete, voiceResponses,
                 showVoiceModal, isGeneratingQuizRef>>
  /\ toasts' = <<>>

(* onstart of session s *)
OnStart(s) ==
  /\ OnlyVoice
  /\ sessions[s].state = "started"
  /\ sessions' = [sessions EXCEPT ![s].state = "listening"]
  /\ isListening' = TRUE
  /\ isProcessingRef' = FALSE
  /\ UNCHANGED <<conversationStepRef, currentTranscriptRef, recognitionRef,
                 silenceTimer, pending, history, isVoiceInputComplete,
                 voiceResponses, showVoiceModal, isGeneratingQuizRef>>
  /\ toasts' = <<>>

(* A result handler that keeps the silence timer when the result is interim *)
OnResultKeepsTimer(s, ev) ==
  /\ OnlyVoice
  /\ ev \in Said(conversationStepRef)
  /\ sessions[s].state \in {"listening", "stopping"}
  /\ sessions' = [sessions EXCEPT ![s].state =
                    IF @ = "stopping" THEN "ending" ELSE @]
  /\ IF ~sessions[s].handlers \/ isProcessingRef \/ isGeneratingQuizRef
     THEN UNCHANGED <<currentTranscriptRef, silenceTimer>>
     ELSE /\ currentTranscriptRef' = Trim(FinalTranscript(ev) \o ev.interim)
          /\ silenceTimer' = IF Trim(FinalTranscript(ev)) # <<>> THEN s ELSE silenceTimer
  /\ UNCHANGED <<conversationStepRef, isListening, isProcessingRef,
                 recognitionRef, pending, history, isVoiceInputComplete,
                 voiceResponses, showVoiceModal, isGeneratingQuizRef>>
  /\ toasts' = <<>>

(* A result event of session s: while it listens, and once more after stop() *)
OnResult(s, ev) ==
  /\ OnlyVoice
  /\ ev \in Said(conversationStepRef)
  /\ sessions[s].state \in {"listening", "stopping"}
  /\ sessions' = [sessions EXCEPT ![s].state =
                    IF @ = "stopping" THEN "ending" ELSE @]
  /\ IF ~sessions[s].handlers \/ isProcessingRef \/ isGeneratingQuizRef
     THEN UNCHANGED <<currentTranscriptRef, silenceTimer>>
     ELSE /\ currentTranscriptRef' = Trim(FinalTranscript(ev) \o ev.interim)
          /\ silenceTimer' = IF Trim(FinalTranscript(ev)) # <<>> THEN s ELSE 0
  /\ UNCHANGED <<conversationStepRef, isListening, isProcessingRef,
                 recognitionRef, pending, history, isVoiceInputComplete,
                 voiceResponses, showVoiceModal, isGeneratingQuizRef>>
  /\ toasts' = <<>>

(* An error event of session s; the end event follows.  quiet: the error is  *)
(* no-speech or aborted.                                                     *)
OnError(s, quiet) ==
  /\ OnlyVoice
  /\ sessions[s].state \in {"started", "listening", "stopping"}
  /\ sessions' = [sessions EXCEPT ![s].state = "ending"]
  /\ IF sessions[s].handlers /\ ~quiet
     THEN /\ isListening' = FALSE
          /\ isProcessingRef' = FALSE
          /\ toasts' = <<Toast("Listening error", "Please try speaking again.")>>
     ELSE /\ toasts' = <<>>
          /\ UNCHANGED <<isListening, isProcessingRef>>
  /\ UNCHANGED <<conversationStepRef, currentTranscriptRef, recognitionRef,
                 silenceTimer, pending, history, isVoiceInputComplete,
                 voiceResponses, showVoiceModal, isGeneratingQuizRef>>

(* The end event of session s: after stop() or an error, or when the service *)
(* ends the session itself                                                   *)
OnEnd(s) ==
  /\ OnlyVoice
  /\ sessions[s].state \in {"listening", "stopping", "ending"}
  /\ sessions' = Dropped([sessions EXCEPT ![s].state = "ended"])
  /\ history' = Remembered(sessions', history)
  /\ IF sessions[s].handlers
     THEN /\ isListening' = FALSE
          /\ isProcessingRef' = FALSE
          /\ silenceTimer' = 0
     ELSE UNCHANGED <<isListening, isProcessingRef, silenceTimer>>
  /\ UNCHANGED <<conversationStepRef, currentTranscriptRef, recognitionRef,
                 pending, isVoiceInputComplete, voiceResponses,
                 showVoiceModal, isGeneratingQuizRef>>
  /\ toasts' = <<>>

(* A conversation that goes from every step to the last one *)
StepAfterSkips(step) == "difficulty"

(* The step processVoiceResponse passes to updateConversationStep *)
StepAfter(step) == IF step = "topic" THEN "questions" ELSE "difficulty"

(* A topic is taken from two characters on *)
TopicTooShortBelowTwo(transcript) == Len(Trim(transcript)) < 2

(* transcript.trim().length < 3 *)
TopicTooShort(transcript) == Len(Trim(transcript)) < 3

(* processVoiceResponse(transcript), up to its await or return; s is the     *)
(* session whose result set the silence timer that made the call             *)
processVoiceResponse(s, transcript) ==
  IF isProcessingRef
  THEN /\ toasts' = <<>>
       /\ UNCHANGED <<isProcessingRef, sessions, conversationStepRef,
                      voiceResponses, pending, showVoiceModal,
                      isVoiceInputComplete, history>>
  ELSE
    LET lowerTranscript == Trim(ToLower(transcript))
        step == conversationStepRef
    IN  /\ isProcessingRef' = FALSE
        /\ sessions' = Stopped(Current)
        /\ CASE step = "topic" /\ TopicTooShort(transcript) ->
                  /\ pending' = [pending EXCEPT !.listen0 = @ + 1]
                  /\ history' = [history EXCEPT ![s].processed = @ + 1]
                  /\ toasts' = <<>>
                  /\ UNCHANGED <<conversationStepRef, voiceResponses,
                                 showVoiceModal, isVoiceInputComplete>>
             [] step = "topic" /\ ~TopicTooShort(transcript) ->
                  /\ voiceResponses' = [voiceResponses EXCEPT !.topic = Trim(transcript)]
                  /\ conversationStepRef' = StepAfter(step)
                  /\ pending' = [pending EXCEPT !.listen = @ + 1]
                  /\ history' = [history EXCEPT ![s].processed = @ + 1]
                  /\ toasts' = <<>>
                  /\ UNCHANGED <<showVoiceModal, isVoiceInputComplete>>
             [] step = "questions" ->
                  /\ voiceResponses' =
                       [voiceResponses EXCEPT !.questionCount = SpokenCount(lowerTranscript)]
                  /\ conversationStepRef' = StepAfter(step)
                  /\ pending' = [pending EXCEPT !.listen = @ + 1]
                  /\ history' = [history EXCEPT ![s].processed = @ + 1]
                  /\ toasts' = <<>>
                  /\ UNCHANGED <<showVoiceModal, isVoiceInputComplete>>
             [] step = "difficulty" ->
                  /\ voiceResponses' =
                       [voiceResponses EXCEPT !.difficulty = SpokenDifficulty(lowerTranscript)]
                  /\ showVoiceModal' = FALSE
                  /\ isVoiceInputComplete' = TRUE
                  /\ toasts' = <<Toast("Voice input complete",
                                       "Click 'Generate Quiz' to create your quiz.")>>
                  /\ history' = [history EXCEPT ![s].processed = @ + 1]
                  /\ UNCHANGED <<conversationStepRef, pending>>

(* The 1500 ms silence timer of onresult fires *)
SilenceTimerFires ==
  /\ OnlyVoice
  /\ silenceTimer # 0
  /\ history[silenceTimer].processed < MaxProcessed
  /\ PendingCount < MaxPending
  /\ silenceTimer' = 0
  /\ IF /\ ~isProcessingRef
        /\ ~isGeneratingQuizRef
        /\ Len(Trim(currentTranscriptRef)) >= 2
     THEN processVoiceResponse(silenceTimer, Trim(currentTranscriptRef))
     ELSE /\ toasts' = <<>>
          /\ UNCHANGED <<isProcessingRef, sessions, conversationStepRef,
                         voiceResponses, pending, showVoiceModal,
                         isVoiceInputComplete, history>>
  /\ UNCHANGED <<isListening, currentTranscriptRef, recognitionRef,
                 isGeneratingQuizRef>>

(* What the user may say when asked for the difficulty: the words the        *)
(* mapping looks for, in several spellings, and two words it does not know   *)
DifficultyWords ==
  {<<"e", "a", "s", "y">>,
   <<"E", "A", "S", "Y">>,
   <<"S", "i", "m", "p", "l", "e">>,
   <<"h", "a", "r", "d">>,
   <<"H", "a", "r", "d">>,
   <<"d", "i", "f", "f", "i", "c", "u", "l", "t">>,
   <<"A", "d", "v", "a", "n", "c", "e", "d">>,
   <<"m", "e", "d", "i", "u", "m">>,
   <<"s", "o">>}

(* The transcripts of n of these words *)
RECURSIVE Phrases(_)
Phrases(n) ==
  IF n = 1 THEN DifficultyWords
  ELSE {p \o <<" ">> \o w : p \in Phrases(n - 1), w \in DifficultyWords}

DifficultyPhrases == UNION {Phrases(n) : n \in 1..MaxWords}

(* The conversation at the difficulty step, the topic and the count stored,  *)
(* when the session that listens has delivered a final result: onresult put  *)
(* the transcript in currentTranscriptRef and set the silence timer          *)
DifficultyInit ==
  /\ appState = "generator"
  /\ quizQuestions = <<>>
  /\ apiKey = TRUE
  /\ inputType = "voice"
  /\ selectedFile = NoFile
  /\ webLink = <<>>
  /\ isVoiceInputComplete = FALSE
  /\ voiceResponses \in {Responses3(t, <<"5">>, "") : t \in VoiceTopics}
  /\ showVoiceModal = TRUE
  /\ isGenerating = FALSE
  /\ isGeneratingQuizRef = FALSE
  /\ lastQuizGenerationRef = 0
  /\ attempt = IdleAttempt
  /\ now = ThrottleMs
  /\ request = NoRequest
  /\ toasts = <<>>
  /\ outcome = "none"
  /\ attemptRequests = 0
  /\ inFlight = 0
  /\ lastClick = NoClick
  /\ conversationStepRef = "difficulty"
  /\ isListening = TRUE
  /\ isProcessingRef = FALSE
  /\ currentTranscriptRef \in
       {Trim(FinalTranscript(SpeechEvent(p, <<>>))) : p \in DifficultyPhrases}
  /\ recognitionRef = 1
  /\ sessions = [s \in SessionIds |->
                   IF s = 1 THEN Session("listening", TRUE) ELSE NoSession]
  /\ silenceTimer = 1
  /\ pending = NoPending
  /\ history = [s \in SessionIds |-> NoHistory]

DifficultyNext == SilenceTimerFires

VoiceNext ==
  \/ startVoiceConversation
  \/ CancelVoice
  \/ ListenTimer0
  \/ ListenTimer
  \/ CreateTimer
  \/ \E s \in SessionIds : OnStart(s)
  \/ \E s \in SessionIds, ev \in SpeechEvents : OnResult(s, ev)
  \/ \E s \in SessionIds, quiet \in BOOLEAN : OnError(s, quiet)
  \/ \E s \in SessionIds : OnEnd(s)
  \/ SilenceTimerFires

----------------------------------------------------------------------------
(* Specifications *)

SpecQuizInit == QuizInit /\ MatchIdle /\ GenTaking /\ RespIdle /\ VoiceIdle

SpecHintsInit == HintsInit /\ MatchIdle /\ GenTaking /\ RespIdle /\ VoiceIdle

SpecHints == SpecHintsInit /\ [][HintsNext]_vars

SpecQuiz == SpecQuizInit /\ [][QuizNext]_vars

(* The quiz with its timers firing: a timer set with setTimeout(.., 2000) is *)
(* never cleared, so its callback runs, on the mounted instance or not       *)
SpecQuizFair == SpecQuiz /\ WF_vars(AutoAdvance) /\ WF_vars(StaleAdvance)

SpecMatchInit == MatchInit /\ QuizIdle /\ GenIdle /\ RespIdle /\ VoiceIdle

MatchNext == ExtractArray

SpecMatch == SpecMatchInit /\ [][MatchNext]_vars

SpecGenInit == GenInit /\ QuizIdle /\ MatchIdle /\ RespIdle /\ VoiceIdle

SpecGen == SpecGenInit /\ [][GenNext]_vars

(* The generator with its awaits settling: extractTextFromFile returns or    *)
(* throws, and fetch resolves or rejects                                     *)
SpecGenFair ==
  /\ SpecGenInit
  /\ [][AttemptNext]_vars
  /\ WF_vars(ExtractionSettles)
  /\ WF_vars(\E resp \in AttemptOutcomes : FetchSettles(resp))

SpecRespInit == RespInit /\ QuizIdle /\ MatchIdle /\ GenIdle /\ VoiceIdle

RespNext == HandleResponse

SpecResp == SpecRespInit /\ [][RespNext]_vars

SpecVoiceInit == VoiceInit /\ QuizIdle /\ MatchIdle /\ RespIdle

SpecVoice == SpecVoiceInit /\ [][VoiceNext]_vars

SpecDifficultyInit == DifficultyInit /\ QuizIdle /\ MatchIdle /\ RespIdle

(* The answer at the difficulty step: every phrase, processed once *)
SpecDifficulty == SpecDifficultyInit /\ [][DifficultyNext]_vars

----------------------------------------------------------------------------
(* Claims about the recognition sessions and what they process, checked     *)
(* under SpecVoice                                                           *)

(* The transcripts that a result with a final part leaves in                 *)
(* currentTranscriptRef                                                      *)
C23_FinalTranscripts ==
  {Trim(FinalTranscript(ev) \o ev.interim) :
     ev \in {e \in SpeechEvents : Trim(FinalTranscript(e)) # <<>>}}

C24_SaidNumber(t) ==
  IF Includes(ToLower(t), <<"s", "i", "x">>) THEN <<"6">>
  ELSE FirstDigits(ToLower(t))

(* C24: the question count recorded in the question-count step is the number *)
(* that was said, as digits or as a word.                                    *)
C24_CountIsNumberSaid ==
  [][/\ conversationStepRef = "questions"
      /\ conversationStepRef' = "difficulty"
      /\ C24_SaidNumber(currentTranscriptRef) # <<>>
      => voiceResponses'.questionCount = C24_SaidNumber(currentTranscriptRef)]_vars

(* C25: at most one SpeechRecognition object is running (started and not     *)
(* stopped) with its handlers attached.                                      *)
C25_OneSessionRunning ==
  Cardinality({s \in SessionIds :
                 /\ sessions[s].handlers
                 /\ sessions[s].state \in {"started", "listening"}}) <= 1

(* C26: while the modal is closed without the voice input being complete     *)
(* (it was cancelled, or never opened), a step that is not the start of a    *)
(* conversation starts no session, processes no transcript, leaves the       *)
(* conversation step and the voice responses alone and does not mark the     *)
(* voice input complete.                                                     *)
C26_CancelledStaysQuiet ==
  [][~showVoiceModal /\ ~isVoiceInputComplete /\ ~showVoiceModal' =>
       /\ \A s \in SessionIds :
            sessions'[s].state = "started" => sessions[s].state = "started"
       /\ \A s \in SessionIds : history'[s].processed <= history[s].processed
       /\ conversationStepRef' = conversationStepRef
       /\ voiceResponses' = voiceResponses
       /\ ~isVoiceInputComplete']_vars

----------------------------------------------------------------------------
(* Claims about the generator with its awaits settling, checked under        *)
(* SpecGenFair                                                               *)

(* C29: isGenerating is true exactly while an attempt is running (extracting *)
(* or fetching), the voice flag is set only while a voice attempt runs, and  *)
(* with the awaits settling both flags return to false.                      *)
C29_BusyFlagReleased ==
  /\ [](isGenerating <=> attempt.pc # "idle")
  /\ [](isGeneratingQuizRef => attempt.pc # "idle" /\ attempt.path = "voice")
  /\ (isGenerating \/ isGeneratingQuizRef)
       ~> (~isGenerating /\ ~isGeneratingQuizRef)

C29_Witness ==
  /\ outcome = "failed"
  /\ ~isGenerating
  /\ ~isGeneratingQuizRef
  /\ lastClick.path = "voice"
  /\ lastClick.sent
  /\ attempt = IdleAttempt

----------------------------------------------------------------------------
(* Claims about the handling of one response, checked under SpecResp *)

(* The fetch gave a body whose matched array was parsed *)
C5_Parsed ==
  fetched.net = "ok" /\ ResponseOk(fetched) /\ fetched.text = "array"

(* A non-empty array whose elements all have the four fields as required *)
C5_WellFormed(arr) ==
  /\ Len(arr) > 0
  /\ \A k \in 1..Len(arr) :
       /\ ~arr[k].isNull
       /\ arr[k].question.type # "undefined"
       /\ arr[k].question # Str("")
       /\ arr[k].options = Arr(NumOptions)
       /\ arr[k].correctAnswerIndex.type = "number"
       /\ arr[k].hint.type # "undefined"
       /\ arr[k].hint # Str("")

(* C20: whichever path handled the response, the other path handles the     *)
(* same response the same way: both deliver the same questions or both fail  *)
(* with the same message.                                                    *)
C20_PathsAgree ==
  handled =>
    LET other == ResponseResult(IF fetchedPath = "doc" THEN "voice" ELSE "doc",
                                fetched)
    IN  /\ result.ok = other.ok
        /\ result.message = other.message
        /\ result.ok => result.value = other.value

(* C5: onQuizGenerated is invoked only when the parsed response is a         *)
(* non-empty array in which every element has a non-empty question, an       *)
(* options array of length 4, a numeric correctAnswerIndex and a non-empty   *)
(* hint, and then with that array; for any other parsed value the attempt    *)
(* fails and nothing is delivered.                                           *)
C5_DeliveredOnlyIfValid ==
  handled =>
    /\ result.ok <=> (C5_Parsed /\ C5_WellFormed(fetched.arr))
    /\ result.ok => result.value = fetched.arr
    /\ ~result.ok => result.message # ""

C5_Witness ==
  /\ handled
  /\ result.ok
  /\ Len(fetched.arr) > 1
  /\ fetchedPath = "voice"

----------------------------------------------------------------------------
(* Claims about the generation attempt, checked under SpecGen *)

(* C4: every question delivered to quiz taking has exactly four options and  *)
(* a correctAnswerIndex that is an integer in 0..3.                          *)
C4_DeliveredAreFourOptionMCQ ==
  appState = "taking" =>
    \A k \in 1..Len(quizQuestions) :
      /\ quizQuestions[k].options = Arr(NumOptions)
      /\ quizQuestions[k].correctAnswerIndex.type = "number"
      /\ quizQuestions[k].correctAnswerIndex.whole
      /\ quizQuestions[k].correctAnswerIndex.num \in 0..(NumOptions - 1)

FailureToasts == {k \in 1..Len(toasts) : toasts[k].title = "Generation failed"}

(* C7: a failed generation attempt ends with exactly one "Generation failed" *)
(* notification that carries a message, with nothing delivered and the       *)
(* application still on the generator screen.                                *)
C7_FailureNotifiedOnce ==
  outcome = "failed" =>
    /\ Cardinality(FailureToasts) = 1
    /\ \A k \in FailureToasts : k = Len(toasts) /\ toasts[k].description # ""
    /\ \A k \in 1..Len(toasts) : toasts[k].title # "Quiz generated successfully!"
    /\ appState = "generator"
    /\ quizQuestions = <<>>

C7_Witness ==
  /\ outcome = "failed"
  /\ attempt.pc = "idle"
  /\ toasts[Len(toasts)] =
       Toast("Generation failed", "Generated questions have invalid format")

(* C8: a click that starts an attempt leads to at most one request, and a    *)
(* failed attempt leaves no request in flight and nothing running.           *)
C8_AtMostOneRequest ==
  /\ attemptRequests <= 1
  /\ outcome = "failed" => (attempt.pc = "idle" /\ request = NoRequest)
  /\ request # NoRequest => (attempt.pc = "fetching" /\ attemptRequests = 1)

C8_Witness ==
  /\ outcome = "failed"
  /\ attemptRequests = 1
  /\ lastClick.result = "started"

(* C11: at most one generation request is in flight at any time: while an   *)
(* attempt has not finished the flags are set that keep every Generate      *)
(* click from starting another one.                                         *)
C11_OneRequestInFlight ==
  /\ inFlight <= 1
  /\ inFlight = 1 <=> attempt.pc = "fetching"
  /\ attempt.pc # "idle" =>
       /\ GenerateDisabled
       /\ attempt.path = "voice" => VoiceClickRefused

C11_Witness ==
  /\ inFlight = 1
  /\ attempt.path = "doc"
  /\ inputType = "web"
  /\ isReadyToGenerate
  /\ isGenerating

(* C18: an attempt on a file that is neither PDF, DOCX nor TXT by MIME type  *)
(* or extension sends no request, and its next step ends it as a failure     *)
(* with the Generation failed notification.                                  *)
C18_UnsupportedFileFails ==
  /\ [](attempt.file # NoFile /\ UnsupportedFile(attempt.file) =>
          /\ attempt.pc = "extracting"
          /\ inFlight = 0 /\ attemptRequests = 0 /\ request = NoRequest)
  /\ [][/\ attempt.file # NoFile /\ UnsupportedFile(attempt.file)
        /\ attempt' # attempt
        => /\ attempt' = IdleAttempt
           /\ outcome' = "failed"
           /\ ~isGenerating'
           /\ toasts' = Append(toasts, Toast("Generation failed", MsgExtractFailed))
           /\ inFlight' = 0 /\ attemptRequests' = 0 /\ request' = NoRequest
           /\ appState' = "generator"]_vars

C18_Witness ==
  /\ outcome = "failed"
  /\ selectedFile = File("image/png", "png", "text")
  /\ lastClick = Click(FALSE, "started", "file", FALSE)
  /\ attemptRequests = 0
  /\ toasts = <<Toast("Processing document...", ""),
                Toast("Generation failed", MsgExtractFailed)>>

(* C19: an attempt on a PDF, DOCX or TXT file with no readable text in it     *)
(* sends no generation request.                                              *)
C19_BlankFileSendsNothing ==
  attempt.file.content = "blank" =>
    /\ attempt.pc # "fetching"
    /\ inFlight = 0
    /\ request = NoRequest

(* C9 as stated: the Generate click that follows a failed attempt starts a   *)
(* new attempt, in the document/web path and in the voice path.              *)
C9_RetryStarts ==
  lastClick.afterFailure => lastClick.result = "started"

(* C9: the Generate click that follows a failed attempt starts a new         *)
(* attempt, except in the voice path within ThrottleMs of the last voice     *)
(* click that did, where it is ignored.                                      *)
C9_RetryStartsUnlessThrottled ==
  lastClick.afterFailure =>
    \/ lastClick.result = "started"
    \/ /\ lastClick.result = "ignored"
       /\ lastClick.path = "voice"
       /\ now - lastQuizGenerationRef < ThrottleMs

C9_Witness ==
  /\ lastClick.afterFailure
  /\ lastClick.result = "started"
  /\ lastClick.path = "voice"
  /\ lastClick.sent
  /\ request # NoRequest

(* A list that passed the checks before onQuizGenerated: not empty, and      *)
(* every element accepted by the callback of questions.every                 *)
C32_Validated(qs) ==
  /\ qs # <<>>
  /\ \A k \in 1..Len(qs) : ValidQuestion(qs[k]) = "true"

(* C32: the app is in 'taking' only with a non-empty validated question      *)
(* list and in 'generator' with the empty list; it enters 'taking' only in   *)
(* the step in which a generation attempt delivers, and returns to           *)
(* 'generator' only by handleRestart, which empties the question list.       *)
C32_ScreenMatchesQuestions ==
  /\ [](/\ appState \in {"generator", "taking"}
        /\ appState = "taking" => C32_Validated(quizQuestions)
        /\ appState = "generator" => quizQuestions = <<>>)
  /\ [][/\ (appState = "generator" /\ appState' = "taking") =>
             /\ attempt.pc = "fetching"
             /\ \E resp \in FetchedResponses :
                  /\ FetchSettles(resp)
                  /\ ResponseResult(attempt.path, resp).ok
                  /\ quizQuestions' = ResponseResult(attempt.path, resp).value
             /\ outcome' = "delivered"
        /\ (appState = "taking" /\ appState' = "generator") =>
             /\ handleRestart
             /\ quizQuestions' = <<>>
        /\ quizQuestions' # quizQuestions => appState' # appState]_vars

(* A quiz was delivered and then left by restart *)
C32_Witness ==
  /\ appState = "generator"
  /\ quizQuestions = <<>>
  /\ outcome = "delivered"

(* A step that sends a generation request: the fetch of generateQuiz or of   *)
(* generateVoiceQuizFrom is called                                           *)
C31_Sends == inFlight' = inFlight + 1

(* C31: a generation request is sent only in a state in which the generator  *)
(* is ready (an API key, and the content of the selected input type: a file, *)
(* a non-blank link, or a completed voice dialogue with its three answers),  *)
(* and a click on an input type button leaves the voice input not complete.  *)
C31_SentOnlyWhenReady ==
  [][/\ C31_Sends => isReadyToGenerate
     /\ (\E t \in {"file", "web", "voice"} : setInputType(t))
          => ~isVoiceInputComplete']_vars

(* The parameters of a voice request are well formed: the trimmed topic is   *)
(* not empty, the count is the number in the stored answer or 10 when that   *)
(* is 0 or no number, hence at least 1, and the difficulty is one of three.  *)
C30_WellFormed ==
  request.path = "voice" =>
    /\ request.topic = Trim(request.topic)
    /\ request.topic # <<>>
    /\ request.questionCount \in Nat
    /\ request.questionCount >= 1
    /\ request.difficulty \in {"easy", "medium", "hard"}

(* The step that sends a voice request takes the parameters from the stored  *)
(* answers                                                                   *)
C30_Sent ==
  (request'.path = "voice" /\ request' # request) =>
    /\ request'.topic = Trim(voiceResponses.topic)
    /\ request'.questionCount =
         (IF ParseInt(voiceResponses.questionCount) \in {NaN, 0}
          THEN DefaultQuestionCount
          ELSE ParseInt(voiceResponses.questionCount))
    /\ request'.difficulty =
         (IF voiceResponses.difficulty = "" THEN "medium"
          ELSE voiceResponses.difficulty)

----------------------------------------------------------------------------
(* Claims about the voice conversation, checked under SpecVoice *)

(* C12: immediately after Cancel the modal is closed, the recognition handle *)
(* that was held is stopped and no handle is held any more, no silence      *)
(* timer is pending, and the processing and generating flags are false.     *)
C12_CancelReleases ==
  [][CancelVoice =>
       /\ ~showVoiceModal'
       /\ recognitionRef' = 0
       /\ \A s \in Current : sessions'[s].state \notin {"started", "listening"}
       /\ silenceTimer' = 0
       /\ ~isProcessingRef'
       /\ ~isGeneratingQuizRef']_vars

C12_Witness ==
  /\ ~showVoiceModal
  /\ ~isVoiceInputComplete
  /\ conversationStepRef = "questions"
  /\ recognitionRef = 0
  /\ silenceTimer = 0
  /\ \E s \in SessionIds : sessions[s].state = "stopping" /\ sessions[s].handlers

(* C14: the conversation step changes only from topic to questions and from  *)
(* questions to difficulty, or back to topic when Start Voice Conversation   *)
(* opens a new conversation with empty responses; and voice input becomes    *)
(* complete only in a call of processVoiceResponse made at the difficulty    *)
(* step, which stores the difficulty.                                        *)
C14_StepOrder ==
  [][/\ conversationStepRef' # conversationStepRef =>
          \/ /\ conversationStepRef' = "topic"
             /\ ~showVoiceModal /\ showVoiceModal'
             /\ voiceResponses' = EmptyResponses
             /\ ~isVoiceInputComplete'
          \/ conversationStepRef = "topic" /\ conversationStepRef' = "questions"
          \/ conversationStepRef = "questions" /\ conversationStepRef' = "difficulty"
     /\ isVoiceInputComplete' /\ ~isVoiceInputComplete =>
          /\ conversationStepRef = "difficulty"
          /\ conversationStepRef' = "difficulty"
          /\ voiceResponses'.difficulty # ""
          /\ \E s \in SessionIds :
               history'[s].processed = history[s].processed + 1]_vars

C14_Witness ==
  /\ isVoiceInputComplete
  /\ ~showVoiceModal
  /\ conversationStepRef = "difficulty"
  /\ voiceResponses.topic = <<"E", "a", "s", "y", "5">>
  /\ voiceResponses.questionCount = <<"1", "0">>
  /\ voiceResponses.difficulty = "easy"

(* C10: whatever the order of result events, silence timers and end events,  *)
(* one listening session is processed by processVoiceResponse at most once   *)
(* and advances the conversation by at most one step (a step is advanced     *)
(* only by such a call).                                                     *)
C10_SessionProcessedOnce ==
  \A s \in SessionIds :
    history[s].processed <= 1

----------------------------------------------------------------------------
(* Claims about the extraction of the array, checked under SpecMatch *)

(* Bracket depth after the first k characters of t *)
RECURSIVE Depth(_, _)
Depth(t, k) ==
  IF k = 0 THEN 0
  ELSE Depth(t, k - 1) + (IF t[k] = "[" THEN 1 ELSE IF t[k] = "]" THEN -1 ELSE 0)

(* The first top-level bracketed array of t: from the first "[" through the  *)
(* "]" that closes it                                                        *)
FirstArray(t) ==
  IF Opens(t) = {} THEN NoMatch
  ELSE LET i == Min(Opens(t))
           ends == {j \in Closes(t) : j > i /\ Depth(t, j) = Depth(t, i - 1)}
       IN  IF ends = {} THEN NoMatch ELSE Slice(t, i, Min(ends))

(* C6: for every response text, the substring handed to the JSON parser is   *)
(* the first top-level bracketed array of the text, also when further        *)
(* arrays or "]" characters follow it.                                       *)
C6_FirstTopLevelArray ==
  (jsonMatch # Unmatched /\ FirstArray(generatedText) # NoMatch)
    => jsonMatch = FirstArray(generatedText)

----------------------------------------------------------------------------
(* Claims about the topic answer, checked under SpecVoice *)

(* The silence timer fires on a topic answer of fewer than 3 characters      *)
C34_ShortTopicAnswer ==
  /\ SilenceTimerFires
  /\ conversationStepRef = "topic"
  /\ ~isProcessingRef
  /\ ~isGeneratingQuizRef
  /\ Len(Trim(currentTranscriptRef)) < 3

(* C34 as stated: a topic answer of fewer than 3 characters leaves the step  *)
(* at 'topic', the stored responses unchanged and the processing flag clear, *)
(* and sets the timer that restarts listening; a stored topic has at least   *)
(* 3 characters.                                                             *)
C34_ShortTopicRestarts ==
  /\ [](voiceResponses.topic = <<>> \/ Len(voiceResponses.topic) >= 3)
  /\ [][C34_ShortTopicAnswer =>
         /\ conversationStepRef' = "topic"
         /\ voiceResponses' = voiceResponses
         /\ isVoiceInputComplete' = isVoiceInputComplete
         /\ ~isProcessingRef'
         /\ pending'.listen0 = pending.listen0 + 1]_vars

(* C34: a topic answer of fewer than 3 characters is rejected without        *)
(* effect: the step stays 'topic', the stored responses are unchanged and    *)
(* the processing flag is clear; after an answer of 2 characters, which      *)
(* stops the session, the timer that calls startListening is set; an answer  *)
(* of 1 character is not processed, no timer is set and the sessions are as  *)
(* they were.  A stored topic has at least 3 characters.                     *)
C34_ShortTopicRejected ==
  /\ [](voiceResponses.topic = <<>> \/ Len(voiceResponses.topic) >= 3)
  /\ [][C34_ShortTopicAnswer =>
         /\ conversationStepRef' = "topic"
         /\ voiceResponses' = voiceResponses
         /\ isVoiceInputComplete' = isVoiceInputComplete
         /\ ~isProcessingRef'
         /\ IF Len(Trim(currentTranscriptRef)) >= 2
            THEN /\ pending'.listen0 = pending.listen0 + 1
                 /\ sessions' = Stopped(Current)
            ELSE /\ pending' = pending
                 /\ sessions' = sessions]_vars

(* 'hi' was answered for the topic and rejected *)
C34_Witness ==
  /\ conversationStepRef = "topic"
  /\ showVoiceModal
  /\ currentTranscriptRef = <<"h", "i">>
  /\ silenceTimer = 0
  /\ voiceResponses = EmptyResponses
  /\ pending.listen0 = 1
  /\ \E s \in SessionIds : history[s].processed = 1

----------------------------------------------------------------------------
(* Claims about the difficulty answer, checked under SpecDifficulty *)

(* w occurs in t, upper and lower case letters taken as the same *)
C33_Contains(t, w) ==
  \E i \in 1..(Len(t) - Len(w) + 1) :
    \A k \in 1..Len(w) : LowerChar(t[i + k - 1]) = w[k]

(* The difficulty the mapping is said to give for the transcript t *)
C33_Mapped(t) ==
  IF \/ C33_Contains(t, <<"e", "a", "s", "y">>)
     \/ C33_Contains(t, <<"s", "i", "m", "p", "l", "e">>)
  THEN "easy"
  ELSE IF \/ C33_Contains(t, <<"h", "a", "r", "d">>)
          \/ C33_Contains(t, <<"d", "i", "f", "f", "i", "c", "u", "l", "t">>)
          \/ C33_Contains(t, <<"a", "d", "v", "a", "n", "c", "e", "d">>)
  THEN "hard"
  ELSE "medium"

(* C33: the difficulty stored for a spoken answer is 'easy' when the         *)
(* transcript contains 'easy' or 'simple', otherwise 'hard' when it contains *)
(* 'hard', 'difficult' or 'advanced', otherwise 'medium', in whatever case   *)
(* the words were transcribed; every answer that is processed gets one of    *)
(* the three.                                                                *)
C33_DifficultyMapped ==
  /\ isVoiceInputComplete <=> silenceTimer = 0
  /\ isVoiceInputComplete =>
       /\ voiceResponses.difficulty = C33_Mapped(currentTranscriptRef)
       /\ voiceResponses.difficulty \in {"easy", "medium", "hard"}

(* 'Hard EASY' was answered and stored as easy *)
C33_Witness ==
  /\ isVoiceInputComplete
  /\ currentTranscriptRef = <<"H", "a", "r", "d", " ", "E", "A", "S", "Y">>
  /\ voiceResponses.difficulty = "easy"

====
